---- MODULE Spec2Model ----
(***************************************************************************)
(* The layout / reading-order / OCR reconciliation of the PDF parser:      *)
(* layout_surya.run_surya (order estimation with its per-page fallback and *)
(* the layout table), ocr_tesseract.run_ocr (crop, tesseract, text) and    *)
(* PdfParser.parse_pdf (merge).                                            *)
(*                                                                         *)
(* Pages and blocks are 0-based in the tables, as in the code              *)
(* (enumerate); TLA+ sequences are 1-based, so row fields hold index - 1.  *)
(***************************************************************************)
EXTENDS Integers, Sequences, FiniteSets, TLC

VARIABLES
    layout_preds,       \* detector output: per page, the blocks (raw bbox, label)
    pc,                 \* position in run_surya / parse_pdf
    order_function,     \* "do_order" | "do_order_by_page" | "none"
    page_no,            \* loop position of do_order_by_page (1-based)
    order_predictions,  \* list of order results, one result = list of (bbox, position)
    temp_preds,         \* temp_pred of every iteration of do_order_by_page so far
    model_calls,        \* every batch_ordering call made: the page numbers passed
    surya_df,           \* the layout table (rows in table order)
    err,                \* the exception that ended the run, "" if none
    notices,            \* what do_order_by_page printed, in print order
    surya_ppi,          \* resolution of the layout images
    ocr_ppi,            \* resolution of the OCR images
    buffer_size,        \* get_ocr_df's buffer_size
    images,             \* run_ocr: the cropped images, in crop order
    image_df,           \* run_ocr: one row (page_idx, block_idx) per cropped image
    temp_file,          \* whether the multi-page tiff at temp_path exists
    stdout,             \* result.stdout of the tesseract process
    ocr_res,            \* what tesseract_ocr_multi returned
    ocr_df,             \* what run_ocr returned
    merged_df,          \* _merge_layout_ocr's table
    result,             \* what parse_pdf returned
    entry,              \* rescale: the function the caller called
    bbox_arg,           \* rescale: the bbox (x, y, w, h) in the layout table
    buffer_arg,         \* rescale: the buffer the caller gave, NaN when none
    rect,               \* rescale: what scale_bbox returned
    local_folder,       \* upload_folder: the entries of the local folder
    remote_folder,      \* upload_folder: the entries of the remote folder
    remote_before,      \* upload_folder: the remote entries at the call
    replace,            \* upload_folder's replace
    delete_other,       \* upload_folder's delete_other
    ssh,                \* Grid.ssh: the SSH connection, NoSession for None
    sftp,               \* Grid.sftp: the connection the SFTP client was opened on
    closed,             \* the SSH connections that have been closed
    session_count,      \* the SSH connections made so far
    in_with,            \* inside a `with Grid(...)` block
    commands,           \* the commands executed on the server, in order
    lsf_jobs,           \* the unfinished jobs bjobs lists
    job_count,          \* the last job id the scheduler gave out
    sftp_ops,           \* the SFTP file operations issued, in order
    grid_call,          \* the last call made on the Grid object
    grid_ret,           \* what that call returned or raised
    prep_id             \* run_ocr's prep_id

suryaVars == <<layout_preds, pc, order_function, page_no, order_predictions,
               temp_preds, model_calls, surya_df, err, notices>>

suryaVars_but_pc == <<layout_preds, order_function, page_no, order_predictions,
                      temp_preds, model_calls, surya_df, err, notices>>

ocrVars == <<surya_ppi, ocr_ppi, buffer_size, images, image_df, temp_file,
             stdout, ocr_res, ocr_df, merged_df, result>>

scaleVars == <<entry, bbox_arg, buffer_arg, rect>>

gridVars == <<local_folder, remote_folder, remote_before, replace, delete_other>>

VARIABLES
    db_tables,          \* parsed.db: per table, whether it exists and its rows
    table_reports_dict, \* ResultDatabase.table_reports_dict
    all_report_names,   \* ResultDatabase.all_report_names
    db_call,            \* the last call on the ResultDatabase
    db_ret              \* what that call returned or raised

VARIABLES
    report_names_json,  \* temp/report_names.json: the list of report names
    job_num,            \* master.main's job_num, the size of the job array
    job_slices          \* per job id, what get_report_names returned, NaN before the job ran

VARIABLES
    input_zip,          \* the names of the input zip, in namelist order
    unreadable,         \* the entries of the input zip pdfplumber raises on
    output_zip,         \* the entry names of the output zip, in the order written
    existing_files,     \* extract_text_from_pdf's existing_files
    zip_idx,            \* position of the loop over input_zip.namelist() (1-based)
    zip_errors,         \* the entries an error was printed for
    run_outputs         \* the output zip before the first run and after every run

jobVars == <<ssh, sftp, closed, session_count, in_with, commands, lsf_jobs, job_count,
             sftp_ops, grid_call, grid_ret, prep_id>>

dbVars == <<db_tables, table_reports_dict, all_report_names, db_call, db_ret>>

sliceVars == <<report_names_json, job_num, job_slices>>

zipVars == <<input_zip, unreadable, output_zip, existing_files, zip_idx, zip_errors, run_outputs>>

\* What neither the PDF parser nor upload_folder touches.
restVars == <<jobVars, dbVars, sliceVars, zipVars>>

\* What the PDF parser does not touch.
otherVars == <<scaleVars, gridVars, restVars>>

vars == <<suryaVars, ocrVars, otherVars>>

----------------------------------------------------------------------------
(* Bounds.                                                                 *)

\* Number of pages of a document.
MaxPages == 3

\* The box limit of the ordering model.  The source writes it as the literal
\* 255 (layout_surya.py:62 and :122, ocr_tesseract.py:56) and only ever
\* compares a box count with it; the model keeps each comparison as written
\* (<, >, >=) and scales the number so that pages below, at and above the
\* limit can be enumerated.
BoxLimit == 3

----------------------------------------------------------------------------
(* Detector output.                                                        *)

\* Raw bbox coordinates are floats in the source; the model holds them in
\* half pixels, so Box(j) is (10, 40j, 200, 40j+30) px and BoxHalf(j) is the
\* same box moved by half a pixel.
Box(j) == <<20, 80 * j, 400, 80 * j + 60>>

BoxHalf(j) == <<21, 80 * j + 1, 401, 80 * j + 61>>

\* The label the detector gives the j-th block of a page.
Label(j) == IF j % 2 = 1 THEN "Text" ELSE "Table"

\* The block lists a page can have: n blocks one under the other ("seq"),
\* the same with the second block half a pixel off the first ("dup"), and
\* the same moved down by one block ("off").  Of a block the model keeps
\* bbox and label; polygon, confidence and image_bbox are carried by the
\* code to the layout table and read nowhere.
PageBlocks(kind, n) ==
    [j \in 1..n |->
        [bbox |-> CASE kind = "seq" -> Box(j)
                    [] kind = "dup" -> IF j = 2 THEN BoxHalf(1) ELSE Box(j)
                    [] kind = "off" -> Box(j + 1),
         label |-> Label(j)]]

\* The block counts of a page: one block, and one below, at and one above
\* the box limit.
BlockCounts == {1, BoxLimit - 1, BoxLimit, BoxLimit + 1}

PageShapes(kinds) == {PageBlocks(k, n) : k \in kinds, n \in BlockCounts}

Documents(kinds) == UNION {[1..m -> PageShapes(kinds)] : m \in 1..MaxPages}

----------------------------------------------------------------------------
(* Helpers.                                                                *)

Max(S) == CHOOSE x \in S : \A y \in S : y <= x

RECURSIVE Flatten(_, _)
\* The concatenation of the lists f[p], f[p+1], ...
Flatten(f, p) == IF p > Len(f) THEN <<>> ELSE f[p] \o Flatten(f, p + 1)

\* Variant of LastSlice taking the first recorded element instead of the
\* last (order_predictions[:batch_size]).
FirstSlice(s) == IF Len(s) = 0 THEN <<>> ELSE <<s[1]>>

\* order_predictions[-batch_size:] with batch_size = 1: the last element as
\* a list, and the empty list when there is none.
LastSlice(s) == IF Len(s) = 0 THEN <<>> ELSE <<s[Len(s)]>>

\* The rankings of n boxes the ordering model is taken to give: reading
\* order equal to detector order, and the reverse of it.
Rankings(n) == {[j \in 1..n |-> j], [j \in 1..n |-> n + 1 - j]}

----------------------------------------------------------------------------
(* layout_surya.py                                                         *)

\* get_bboxes: per page, the list of block bboxes.
get_bboxes(preds) ==
    [p \in 1..Len(preds) |-> [j \in 1..Len(preds[p]) |-> preds[p][j].bbox]]

\* get_box_num: the number of boxes of a batch of pages.
RECURSIVE get_box_num(_)
get_box_num(bboxes) ==
    IF Len(bboxes) = 0 THEN 0 ELSE Len(Head(bboxes)) + get_box_num(Tail(bboxes))

\* One page's order result: the input boxes in input order, each with the
\* rank the model gave it.
OrderResult(boxes, perm) ==
    [j \in 1..Len(boxes) |-> [bbox |-> boxes[j], position |-> perm[j] - 1]]

PageOrderings(boxes) == {OrderResult(boxes, perm) : perm \in Rankings(Len(boxes))}

\* batch_ordering (external model, called by do_order): one result per
\* page of the batch; the ranks are the model's choice.
do_order(bboxes) ==
    {r \in [1..Len(bboxes) -> UNION {PageOrderings(bboxes[p]) : p \in 1..Len(bboxes)}] :
        \A p \in 1..Len(bboxes) : r[p] \in PageOrderings(bboxes[p])}

\* parse_layout_res: one row per block of every page, pages then blocks in
\* detector order.  bbox goes through str and back (eval), which gives the
\* same floats.
parse_layout_res(preds) ==
    Flatten([p \in 1..Len(preds) |->
                [j \in 1..Len(preds[p]) |->
                    [page_idx |-> p - 1, block_idx |-> j - 1,
                     label |-> preds[p][j].label, bbox |-> preds[p][j].bbox]]], 1)

\* parse_order_res: one row per box of every order result; page_idx is the
\* place of the result in the list (enumerate), not the page it was computed
\* for.
parse_order_res(preds) ==
    Flatten([p \in 1..Len(preds) |->
                [j \in 1..Len(preds[p]) |->
                    [page_idx |-> p - 1, block_idx |-> j - 1,
                     bbox |-> preds[p][j].bbox, position |-> preds[p][j].position]]], 1)

\* pd.DataFrame([]) has no columns, so the first res_df['page_idx'] of
\* parse_order_res raises KeyError when there is no box at all.
ParseOrderRaises(preds) == Len(Flatten(preds, 1)) = 0

\* int(i) on a coordinate held in half pixels: truncation toward zero.
IntCoord(c) == IF c >= 0 THEN c \div 2 ELSE -((-c) \div 2)

IntBBox(bbox) == [k \in 1..4 |-> IntCoord(bbox[k])]

\* toolkit.add_unique_id: bbox becomes a list of ints and unique_id the
\* '_'-joined page_idx and ints, held here as the list of those numbers.
add_unique_id(df) ==
    [r \in 1..Len(df) |->
        [df[r] EXCEPT !.bbox = IntBBox(df[r].bbox)]
            @@ [unique_id |-> <<df[r].page_idx>> \o IntBBox(df[r].bbox)]]

\* A missing value of a column (NaN), next to which a value v is <<v>>.
NaN == <<>>

\* dict(zip(unique_id, position)) then Series.map: the position of the last
\* order row with that id, NaN when there is none.
position_map(order_df, id) ==
    LET hits == {k \in 1..Len(order_df) : order_df[k].unique_id = id}
    IN  IF hits = {} THEN NaN ELSE <<order_df[Max(hits)].position>>

\* Variant of fillna filling with 0 instead of -1.
fillna_zero(v) == IF v = NaN THEN 0 ELSE v[1]

\* fillna(-1).astype(int)
fillna(v) == IF v = NaN THEN -1 ELSE v[1]

RECURSIVE LexLeq(_, _, _)
\* Row a is not after row b in the order given by the columns `by`.
LexLeq(by, a, b) ==
    IF Len(by) = 0 THEN TRUE
    ELSE \/ a[Head(by)] < b[Head(by)]
         \/ a[Head(by)] = b[Head(by)] /\ LexLeq(Tail(by), a, b)

RECURSIVE StableSort(_, _)
\* A stable sort on the columns `by`: a row goes behind every row that is
\* not after it.
StableSort(df, by) ==
    IF Len(df) = 0 THEN <<>>
    ELSE LET init == StableSort(SubSeq(df, 1, Len(df) - 1), by)
             last == df[Len(df)]
         IN  SelectSeq(init, LAMBDA r : LexLeq(by, r, last))
                 \o <<last>>
                 \o SelectSeq(init, LAMBDA r : ~LexLeq(by, r, last))

\* Variant of sort_values sorting on the page only.
sort_values_by_page(df) == StableSort(df, <<"page_idx">>)

\* sort_values(by=['page_idx', 'position']).  Sorting on several columns is
\* a lexsort in pandas, which is stable.
sort_values(df) == StableSort(df, <<"page_idx", "position">>)

\* order_layout: the layout rows with the position joined on unique_id,
\* unique_id dropped, sorted.
order_layout(layout_df, order_df) ==
    LET l == add_unique_id(layout_df)
        o == add_unique_id(order_df)
    IN  sort_values(
            [r \in 1..Len(l) |->
                [page_idx |-> l[r].page_idx, block_idx |-> l[r].block_idx,
                 label |-> l[r].label, bbox |-> l[r].bbox,
                 position |-> fillna(position_map(o, l[r].unique_id))]])

\* Variant of UseDoOrder with <= for <.
UseDoOrderLeq(page_box_num) ==
    Max({page_box_num[p] : p \in 1..Len(page_box_num)}) <= BoxLimit

\* run_surya line 62: the whole document goes to the model in one call.
UseDoOrder(page_box_num) ==
    Max({page_box_num[p] : p \in 1..Len(page_box_num)}) < BoxLimit

\* do_order_by_page line 122: the page is not given to the model.
TooManyBoxes(bbox_batch) == get_box_num(bbox_batch) > BoxLimit

\* The print of do_order_by_page on a page with too many boxes: a fixed
\* sentence, with no format argument, so that it names no page.
TooManyBoxesNotice ==
    [text |-> "Too many boxes in this batch. Use the result of former page as the prediction.",
     page |-> NaN]

----------------------------------------------------------------------------
(* run_surya, step by step.                                                *)

\* run_surya up to the choice of order_function.
run_surya_start ==
    /\ pc = "run_surya"
    /\ LET bboxes == get_bboxes(layout_preds)
           page_box_num == [p \in 1..Len(bboxes) |-> Len(bboxes[p])]
       IN  IF UseDoOrder(page_box_num)
           THEN /\ order_function' = "do_order"
                /\ pc' = "do_order"
           ELSE /\ order_function' = "do_order_by_page"
                /\ pc' = "do_order_by_page"
    /\ UNCHANGED <<layout_preds, page_no, order_predictions, temp_preds,
                   model_calls, surya_df, err,
                   notices>>
    /\ UNCHANGED ocrVars
    /\ UNCHANGED otherVars

\* order_function = do_order: one batch_ordering call over all pages.
do_order_all ==
    /\ pc = "do_order"
    /\ \E res \in do_order(get_bboxes(layout_preds)) :
           order_predictions' = res
    /\ model_calls' = Append(model_calls, [p \in 1..Len(layout_preds) |-> p])
    /\ pc' = "parse"
    /\ UNCHANGED <<layout_preds, order_function, page_no, temp_preds, surya_df, err,
                   notices>>
    /\ UNCHANGED ocrVars
    /\ UNCHANGED otherVars

\* One iteration of the loop of do_order_by_page on a page the model scores.
do_order_by_page_model ==
    /\ pc = "do_order_by_page"
    /\ page_no <= Len(layout_preds)
    /\ LET bbox_batch == <<get_bboxes(layout_preds)[page_no]>>
       IN  /\ ~TooManyBoxes(bbox_batch)
           /\ \E temp_pred \in do_order(bbox_batch) :
                  /\ order_predictions' = order_predictions \o temp_pred
                  /\ temp_preds' = Append(temp_preds, temp_pred)
    /\ model_calls' = Append(model_calls, <<page_no>>)
    /\ page_no' = page_no + 1
    /\ UNCHANGED <<layout_preds, pc, order_function, surya_df, err,
                   notices>>
    /\ UNCHANGED ocrVars
    /\ UNCHANGED otherVars

\* One iteration on a page with too many boxes: the last recorded result
\* (none when nothing is recorded yet) is recorded again.
do_order_by_page_former ==
    /\ pc = "do_order_by_page"
    /\ page_no <= Len(layout_preds)
    /\ TooManyBoxes(<<get_bboxes(layout_preds)[page_no]>>)
    /\ LET temp_pred == LastSlice(order_predictions)
       IN  /\ order_predictions' = order_predictions \o temp_pred
           /\ temp_preds' = Append(temp_preds, temp_pred)
    /\ notices' = Append(notices, TooManyBoxesNotice)
    /\ page_no' = page_no + 1
    /\ UNCHANGED <<layout_preds, pc, order_function, model_calls, surya_df, err>>
    /\ UNCHANGED ocrVars
    /\ UNCHANGED otherVars

\* The loop of do_order_by_page is over.
do_order_by_page_return ==
    /\ pc = "do_order_by_page"
    /\ page_no > Len(layout_preds)
    /\ pc' = "parse"
    /\ UNCHANGED <<layout_preds, order_function, page_no, order_predictions,
                   temp_preds, model_calls, surya_df, err,
                   notices>>
    /\ UNCHANGED ocrVars
    /\ UNCHANGED otherVars

\* parse_order_res and order_layout: the layout table, or KeyError.
run_surya_tables ==
    /\ pc = "parse"
    /\ IF ParseOrderRaises(order_predictions)
       THEN /\ pc' = "raised"
            /\ err' = "KeyError"
            /\ UNCHANGED surya_df
       ELSE /\ surya_df' = order_layout(parse_layout_res(layout_preds),
                                        parse_order_res(order_predictions))
            /\ pc' = "surya_done"
            /\ UNCHANGED err
    /\ UNCHANGED <<layout_preds, order_function, page_no, order_predictions,
                   temp_preds, model_calls,
                   notices>>
    /\ UNCHANGED ocrVars
    /\ UNCHANGED otherVars

----------------------------------------------------------------------------
(* toolkit.py, ocr_tesseract.py and PdfParser                              *)

\* math.floor(a / b) and math.ceil(a / b) for b > 0.
Floor(a, b) == a \div b

Ceil(a, b) == -((-a) \div b)

\* The multiplicands n of 0..300 whose double product n * (150 / 72) lies
\* above n * 150 / 72 although that is an integer: 150 / 72 is the double
\* 2.0833333333333335, and 60 times it is 125.00000000000001.  The products
\* with 72 / 150 and with 1.0 are exact where the quotient is an integer.
InexactAbove == {60, 108, 120, 204, 216, 228, 240}

\* The double n * scale is off an integer quotient, away from zero.
Inexact(n, scale) == scale = <<150, 72>> /\ n \in InexactAbove

\* math.floor(n * scale) and math.ceil(n * scale); scale is the pair
\* (image_ppi, layout_ppi) standing for the double image_ppi / layout_ppi.
FloorMul(n, scale) ==
    Floor(n * scale[1], scale[2]) - (IF n < 0 /\ Inexact(-n, scale) THEN 1 ELSE 0)

CeilMul(n, scale) ==
    Ceil(n * scale[1], scale[2]) + (IF n > 0 /\ Inexact(n, scale) THEN 1 ELSE 0)

\* Variant of scale_bbox with the buffer added to the min corner (a sign
\* slip).
scale_bbox_inward(bbox, scale, buffer) ==
    <<FloorMul(bbox[1] + buffer, scale),
      FloorMul(bbox[2] + buffer, scale),
      CeilMul(bbox[3] + buffer, scale),
      CeilMul(bbox[4] + buffer, scale)>>

\* toolkit.scale_bbox.
scale_bbox(bbox, scale, buffer) ==
    <<FloorMul(bbox[1] - buffer, scale),
      FloorMul(bbox[2] - buffer, scale),
      CeilMul(bbox[3] + buffer, scale),
      CeilMul(bbox[4] + buffer, scale)>>

\* Variant of BufferSize without the test on the resolutions.
BufferSizeAlways(layout_ppi, image_ppi) == 2

\* get_ocr_df lines 68-71.
BufferSize(layout_ppi, image_ppi) == IF layout_ppi = image_ppi THEN 0 ELSE 2

\* crop_images line 48: the bbox column of the layout table, rescaled in
\* place.
ScaleTable(layout_table, image_ppi, layout_ppi, buffer) ==
    [r \in 1..Len(layout_table) |->
        [layout_table[r] EXCEPT
            !.bbox = scale_bbox(layout_table[r].bbox, <<image_ppi, layout_ppi>>, buffer)]]

\* Variant of SkipPage with > for >=.
SkipPageOver(bbox_num) == bbox_num > BoxLimit

\* crop_images line 56: the page is not cropped.
SkipPage(bbox_num) == bbox_num >= BoxLimit

\* Variant of PageCrops tagging a crop with its row number within the page
\* instead of the row's block_idx.
PageCropsByRowNumber(layout_table, page_index) ==
    LET page_layout_df == SelectSeq(layout_table, LAMBDA row : row.page_idx = page_index)
    IN  IF SkipPage(Len(page_layout_df)) THEN <<>>
        ELSE [k \in 1..Len(page_layout_df) |->
                 [page_idx |-> page_index,
                  block_idx |-> k - 1,
                  image |-> [page |-> page_index, box |-> page_layout_df[k].bbox]]]

\* crop_images lines 53-67 for one page: a row per block of the page, in
\* table order, with the crop of the page image at the block's bbox.
PageCrops(layout_table, page_index) ==
    LET page_layout_df == SelectSeq(layout_table, LAMBDA row : row.page_idx = page_index)
    IN  IF SkipPage(Len(page_layout_df)) THEN <<>>
        ELSE [k \in 1..Len(page_layout_df) |->
                 [page_idx |-> page_index,
                  block_idx |-> page_layout_df[k].block_idx,
                  image |-> [page |-> page_index, box |-> page_layout_df[k].bbox]]]

\* crop_images lines 51-70 on the rescaled table, for n_images page images.
crop_images(n_images, layout_table) ==
    Flatten([p \in 1..n_images |-> PageCrops(layout_table, p - 1)], 1)

\* A value of stdout: absent (None), or the text, held as the list of its
\* form-feed separated segments (what split('\f') makes of it).
NoOutput == [none |-> TRUE, segments |-> <<>>]

\* A text is the list of the images it was read from: empty, or one image.
EmptyText == <<>>

TextOf(img) == <<img>>

\* The segments of the text tesseract prints when it recognizes the first
\* k frames: the texts separated by form feeds, with or without a form feed
\* after the last (split gives one more, empty, segment then); the empty
\* text splits into one empty segment.
Segments(imgs, k, trailing) ==
    IF k = 0 THEN <<EmptyText>>
    ELSE [i \in 1..k |-> TextOf(imgs[i])] \o (IF trailing THEN <<EmptyText>> ELSE <<>>)

\* What result.stdout can be after subprocess.run on imgs.
EngineOutputs(imgs) ==
    {NoOutput} \cup
    {[none |-> FALSE, segments |-> Segments(imgs, k, t)] :
        k \in {0, Len(imgs) - 1, Len(imgs)} \cap 0..Len(imgs), t \in BOOLEAN}

\* tesseract_ocr_multi lines 105-116: what is returned for an output.
OcrResult(out, imgs) ==
    IF out.none THEN [i \in 1..Len(imgs) |-> EmptyText] ELSE out.segments

\* tesseract_ocr_multi lines 107-114: os.remove is reached.
RemoveReached(out) == ~out.none

\* run_ocr line 34: assigning a list to a column raises ValueError unless
\* the list is as long as the frame.
AssignRaises(df, values) == Len(values) # Len(df)

\* image_df['text'] = ocr_res, positionally.
AssignText(df, values) ==
    [r \in 1..Len(df) |->
        [page_idx |-> df[r].page_idx, block_idx |-> df[r].block_idx, text |-> values[r]]]

\* _merge_layout_ocr's unique_id: '_'-joined page_idx and block_idx.
MergeId(row) == <<row.page_idx, row.block_idx>>

\* dict(zip(unique_id, text)) then Series.map.
text_map(df, id) ==
    LET hits == {k \in 1..Len(df) : MergeId(df[k]) = id}
    IN  IF hits = {} THEN NaN ELSE <<df[Max(hits)].text>>

\* Variant of merge_layout_ocr keeping only the rows that have a text (an
\* inner join).
merge_layout_ocr_inner(layout_df, df) ==
    SelectSeq([r \in 1..Len(layout_df) |->
                  layout_df[r] @@ [text |-> text_map(df, MergeId(layout_df[r]))]],
              LAMBDA row : row.text # NaN)

\* Variant of merge_layout_ocr giving the rows in key order (a merge that
\* sorts on the join key).
merge_layout_ocr_sorted(layout_df, df) ==
    StableSort([r \in 1..Len(layout_df) |->
                   layout_df[r] @@ [text |-> text_map(df, MergeId(layout_df[r]))]],
               <<"page_idx", "block_idx">>)

\* _merge_layout_ocr: the layout rows, each with the text of its id.
merge_layout_ocr(layout_df, df) ==
    [r \in 1..Len(layout_df) |->
        layout_df[r] @@ [text |-> text_map(df, MergeId(layout_df[r]))]]

\* parse_pdf lines 45-47: the columns of the returned frame.
parse_pdf_columns(df) ==
    [r \in 1..Len(df) |->
        [page_index |-> df[r].page_idx, position |-> df[r].position,
         bbox |-> df[r].bbox, label |-> df[r].label, text |-> df[r].text,
         layout_ppi |-> df[r].layout_ppi]]

\* get_surya_df line 62 after run_surya returned.
get_surya_df_return ==
    /\ pc = "surya_done"
    /\ surya_df' = [r \in 1..Len(surya_df) |-> surya_df[r] @@ [layout_ppi |-> surya_ppi]]
    /\ pc' = "get_ocr_df"
    /\ UNCHANGED <<layout_preds, order_function, page_no, order_predictions,
                   temp_preds, model_calls, err,
                   notices>>
    /\ UNCHANGED ocrVars
    /\ UNCHANGED otherVars

\* get_ocr_df up to run_ocr line 27: the layout table (the caller's frame,
\* changed in place) is rescaled and the pages are cropped; image_df['image']
\* raises KeyError when nothing was cropped.
run_ocr_crop ==
    /\ pc = "get_ocr_df"
    /\ buffer_size' = BufferSize(surya_ppi, ocr_ppi)
    /\ surya_df' = ScaleTable(surya_df, ocr_ppi, surya_ppi, buffer_size')
    /\ LET crops == crop_images(Len(layout_preds), surya_df')
       IN  IF Len(crops) = 0
           THEN /\ pc' = "raised"
                /\ err' = "KeyError"
                /\ UNCHANGED <<images, image_df>>
           ELSE /\ images' = [i \in 1..Len(crops) |-> crops[i].image]
                /\ image_df' = [i \in 1..Len(crops) |->
                                   [page_idx |-> crops[i].page_idx,
                                    block_idx |-> crops[i].block_idx]]
                /\ pc' = "tesseract_ocr_multi"
                /\ UNCHANGED err
    /\ UNCHANGED <<layout_preds, order_function, page_no, order_predictions,
                   temp_preds, model_calls,
                   notices>>
    /\ UNCHANGED <<surya_ppi, ocr_ppi, temp_file, stdout, ocr_res, ocr_df,
                   merged_df, result>>
    /\ UNCHANGED otherVars

\* tesseract_ocr_multi line 75: the images are saved to temp_path.
tesseract_save ==
    /\ pc = "tesseract_ocr_multi"
    /\ temp_file' = TRUE
    /\ pc' = "subprocess_run"
    /\ UNCHANGED suryaVars_but_pc
    /\ UNCHANGED <<surya_ppi, ocr_ppi, buffer_size, images, image_df, stdout,
                   ocr_res, ocr_df, merged_df, result>>
    /\ UNCHANGED otherVars

\* tesseract_ocr_multi lines 87-93: the process ran.
subprocess_run ==
    /\ pc = "subprocess_run"
    /\ \E out \in EngineOutputs(images) : stdout' = out
    /\ pc' = "output_text"
    /\ UNCHANGED suryaVars_but_pc
    /\ UNCHANGED <<surya_ppi, ocr_ppi, buffer_size, images, image_df, temp_file,
                   ocr_res, ocr_df, merged_df, result>>
    /\ UNCHANGED otherVars

\* tesseract_ocr_multi line 94: subprocess.run raised, the except clause
\* is entered.
subprocess_run_raises ==
    /\ pc = "subprocess_run"
    /\ pc' = "except"
    /\ UNCHANGED suryaVars_but_pc
    /\ UNCHANGED ocrVars
    /\ UNCHANGED otherVars

\* tesseract_ocr_multi lines 95-103: the second run gave a result.
subprocess_rerun ==
    /\ pc = "except"
    /\ \E out \in EngineOutputs(images) : stdout' = out
    /\ pc' = "output_text"
    /\ UNCHANGED suryaVars_but_pc
    /\ UNCHANGED <<surya_ppi, ocr_ppi, buffer_size, images, image_df, temp_file,
                   ocr_res, ocr_df, merged_df, result>>
    /\ UNCHANGED otherVars

\* tesseract_ocr_multi lines 95-100: the second run raised too, and the
\* exception leaves tesseract_ocr_multi and run_ocr.
subprocess_rerun_raises ==
    /\ pc = "except"
    /\ pc' = "raised"
    /\ err' = "subprocess"
    /\ UNCHANGED <<layout_preds, order_function, page_no, order_predictions,
                   temp_preds, model_calls, surya_df,
                   notices>>
    /\ UNCHANGED ocrVars
    /\ UNCHANGED otherVars

\* tesseract_ocr_multi lines 105-116.
tesseract_return ==
    /\ pc = "output_text"
    /\ ocr_res' = OcrResult(stdout, images)
    /\ temp_file' = IF RemoveReached(stdout) THEN FALSE ELSE temp_file
    /\ pc' = "run_ocr_text"
    /\ UNCHANGED suryaVars_but_pc
    /\ UNCHANGED <<surya_ppi, ocr_ppi, buffer_size, images, image_df, stdout,
                   ocr_df, merged_df, result>>
    /\ UNCHANGED otherVars

\* run_ocr lines 32-43.
run_ocr_text ==
    /\ pc = "run_ocr_text"
    /\ IF AssignRaises(image_df, ocr_res)
       THEN /\ pc' = "raised"
            /\ err' = "Exception"
            /\ UNCHANGED ocr_df
       ELSE /\ ocr_df' = AssignText(image_df, ocr_res)
            /\ pc' = "merge"
            /\ UNCHANGED err
    /\ UNCHANGED <<layout_preds, order_function, page_no, order_predictions,
                   temp_preds, model_calls, surya_df,
                   notices>>
    /\ UNCHANGED <<surya_ppi, ocr_ppi, buffer_size, images, image_df, temp_file,
                   stdout, ocr_res, merged_df, result>>
    /\ UNCHANGED otherVars

\* parse_pdf lines 43-49.
parse_pdf_merge ==
    /\ pc = "merge"
    /\ merged_df' = merge_layout_ocr(surya_df, ocr_df)
    /\ result' = parse_pdf_columns(merged_df')
    /\ pc' = "done"
    /\ UNCHANGED suryaVars_but_pc
    /\ UNCHANGED <<surya_ppi, ocr_ppi, buffer_size, images, image_df, temp_file,
                   stdout, ocr_res, ocr_df>>
    /\ UNCHANGED otherVars

\* No rescaling entry point has been called on its own.
NoRescaleCall ==
    /\ entry = "none"
    /\ bbox_arg = <<>>
    /\ buffer_arg = NaN
    /\ rect = <<>>

\* upload_folder has not been called.
NoUploadCall ==
    /\ local_folder = {}
    /\ remote_folder = {}
    /\ remote_before = {}
    /\ replace = TRUE
    /\ delete_other = FALSE

\* self.ssh = None, self.sftp = None.
NoSession == 0

\* Python values: a str is its lines, an int its value, a DataFrame its rows.
PyStr(lines) == [type |-> "str", value |-> lines]

PyInt(n) == [type |-> "int", value |-> <<n>>]

PyNone == [type |-> "NoneType", value |-> <<>>]

PyDataFrame(rows) == [type |-> "DataFrame", value |-> rows]

\* How a call ended: with a return value, or with an exception.
Return(v) == [raised |-> "", value |-> v]

Raise(e) == [raised |-> e, value |-> PyNone]

\* A call on the Grid object: its name, its argument, the jobs the
\* scheduler listed when it was made, and the last output of the server.
Call(name, arg, jobs, output) ==
    [name |-> name, arg |-> arg, jobs |-> jobs, output |-> output]

\* A Grid object after __init__, before any call.
NoGridCall ==
    /\ ssh = NoSession
    /\ sftp = NoSession
    /\ closed = {}
    /\ session_count = 0
    /\ in_with = FALSE
    /\ commands = <<>>
    /\ lsf_jobs = {}
    /\ job_count = 0
    /\ sftp_ops = <<>>
    /\ grid_call = Call("none", PyNone, {}, PyNone)
    /\ grid_ret = Return(PyNone)
    /\ prep_id = PyNone

\* The tables of parsed.db that master.main writes: parsed_<job_id>.
Tables == {"parsed_1", "parsed_2"}

\* The reports of report_names.json.
Reports == {"r1", "r2"}

\* A table that does not exist, as sqlite_master shows it.
NoTable == [exists |-> FALSE, rows |-> <<>>]

\* A key that a dict does not have.
NoKey == [key |-> FALSE, names |-> {}]

\* No parsed.db and no ResultDatabase on it.
NoDatabaseCall ==
    /\ db_tables = [t \in Tables |-> NoTable]
    /\ table_reports_dict = [t \in Tables |-> NoKey]
    /\ all_report_names = {}
    /\ db_call = "none"
    /\ db_ret = Return(PyNone)

\* The size of the largest job array, and of the longest list of reports.
MaxJobs == 4

MaxReports == 5

\* No job array has been submitted.
NoJobArray ==
    /\ report_names_json = <<>>
    /\ job_num = 1
    /\ job_slices = [j \in 1..MaxJobs |-> NaN]

\* No zip file is open.
NoZipCall ==
    /\ input_zip = <<>>
    /\ unreadable = {}
    /\ output_zip = <<>>
    /\ existing_files = {}
    /\ zip_idx = 1
    /\ zip_errors = <<>>
    /\ run_outputs = <<>>

\* Nothing but the parser or upload_folder is running.
RestIdle ==
    /\ NoGridCall
    /\ NoDatabaseCall
    /\ NoJobArray
    /\ NoZipCall

\* The state at the call of run_surya on a document from `kinds`, with the
\* resolutions the caller chose.
ParseInit(kinds, ppis) ==
    /\ layout_preds \in Documents(kinds)
    /\ pc = "run_surya"
    /\ order_function = "none"
    /\ page_no = 1
    /\ order_predictions = <<>>
    /\ temp_preds = <<>>
    /\ model_calls = <<>>
    /\ surya_df = <<>>
    /\ err = ""
    /\ notices = <<>>
    /\ \E pp \in ppis : surya_ppi = pp[1] /\ ocr_ppi = pp[2]
    /\ buffer_size = 0
    /\ images = <<>>
    /\ image_df = <<>>
    /\ temp_file = FALSE
    /\ stdout = NoOutput
    /\ ocr_res = <<>>
    /\ ocr_df = <<>>
    /\ merged_df = <<>>
    /\ result = <<>>
    /\ NoRescaleCall
    /\ NoUploadCall
    /\ RestIdle

\* run_surya alone, on every kind of page.
Init == ParseInit({"seq", "dup", "off"}, {<<150, 150>>})

Next ==
    \/ run_surya_start
    \/ do_order_all
    \/ do_order_by_page_model
    \/ do_order_by_page_former
    \/ do_order_by_page_return
    \/ run_surya_tables

Spec == Init /\ [][Next]_vars

\* get_surya_df, get_ocr_df and the merge as parse_pdf runs them (one
\* resolution) and as a caller of the three with two resolutions does.
InitParse == ParseInit({"seq"}, {<<150, 150>>, <<72, 150>>})

NextParse ==
    \/ Next
    \/ get_surya_df_return
    \/ run_ocr_crop
    \/ tesseract_save
    \/ subprocess_run
    \/ subprocess_run_raises
    \/ subprocess_rerun
    \/ subprocess_rerun_raises
    \/ tesseract_return
    \/ run_ocr_text
    \/ parse_pdf_merge

SpecParse == InitParse /\ [][NextParse]_vars

----------------------------------------------------------------------------
(* The rescaling of one bbox, from each function a caller can enter at.    *)

\* The resolutions a caller chooses.
Ppis == {72, 150}

\* The bboxes of the layout table: integer corners (x, y, w, h) as
\* add_unique_id leaves them, among them coordinates whose product with
\* 150/72 is an integer (0, 12, 24, 60).
BBoxes == {<<x, y, w, h>> : x \in {0, 5, 12}, y \in {0, 12}, w \in {17, 24, 58}, h \in {12, 24, 60}}

\* The buffers a caller gives.
Buffers == {0, 2}

\* The defaults of the buffer parameters (buffer_size=2, buffer=2, buffer=2).
run_ocr_buffer_size == 2

crop_images_buffer == 2

scale_bbox_buffer == 2

\* A parameter with a default: the argument, or the default when none is
\* given.
Param(arg, default) == IF arg = NaN THEN default ELSE arg[1]

\* get_ocr_df lines 68-73 down to scale_bbox: the buffer is chosen from the
\* resolutions.
rescale_get_ocr_df ==
    /\ pc = "rescale"
    /\ entry = "get_ocr_df"
    /\ buffer_size' = BufferSize(surya_ppi, ocr_ppi)
    /\ rect' = scale_bbox(bbox_arg, <<ocr_ppi, surya_ppi>>, buffer_size')
    /\ pc' = "rescaled"
    /\ UNCHANGED suryaVars_but_pc
    /\ UNCHANGED <<surya_ppi, ocr_ppi, images, image_df, temp_file, stdout,
                   ocr_res, ocr_df, merged_df, result>>
    /\ UNCHANGED <<entry, bbox_arg, buffer_arg, gridVars, restVars>>

\* run_ocr lines 19-25 down to scale_bbox.
rescale_run_ocr ==
    /\ pc = "rescale"
    /\ entry = "run_ocr"
    /\ buffer_size' = Param(buffer_arg, run_ocr_buffer_size)
    /\ rect' = scale_bbox(bbox_arg, <<ocr_ppi, surya_ppi>>, buffer_size')
    /\ pc' = "rescaled"
    /\ UNCHANGED suryaVars_but_pc
    /\ UNCHANGED <<surya_ppi, ocr_ppi, images, image_df, temp_file, stdout,
                   ocr_res, ocr_df, merged_df, result>>
    /\ UNCHANGED <<entry, bbox_arg, buffer_arg, gridVars, restVars>>

\* crop_images lines 45-48.
rescale_crop_images ==
    /\ pc = "rescale"
    /\ entry = "crop_images"
    /\ buffer_size' = Param(buffer_arg, crop_images_buffer)
    /\ rect' = scale_bbox(bbox_arg, <<ocr_ppi, surya_ppi>>, buffer_size')
    /\ pc' = "rescaled"
    /\ UNCHANGED suryaVars_but_pc
    /\ UNCHANGED <<surya_ppi, ocr_ppi, images, image_df, temp_file, stdout,
                   ocr_res, ocr_df, merged_df, result>>
    /\ UNCHANGED <<entry, bbox_arg, buffer_arg, gridVars, restVars>>

\* scale_bbox called with the quotient of the resolutions as its scale.
rescale_scale_bbox ==
    /\ pc = "rescale"
    /\ entry = "scale_bbox"
    /\ buffer_size' = Param(buffer_arg, scale_bbox_buffer)
    /\ rect' = scale_bbox(bbox_arg, <<ocr_ppi, surya_ppi>>, buffer_size')
    /\ pc' = "rescaled"
    /\ UNCHANGED suryaVars_but_pc
    /\ UNCHANGED <<surya_ppi, ocr_ppi, images, image_df, temp_file, stdout,
                   ocr_res, ocr_df, merged_df, result>>
    /\ UNCHANGED <<entry, bbox_arg, buffer_arg, gridVars, restVars>>

\* A caller enters at one of the four functions with a bbox and two
\* resolutions; get_ocr_df has no buffer parameter.
InitScale ==
    /\ layout_preds = <<>>
    /\ pc = "rescale"
    /\ order_function = "none"
    /\ page_no = 1
    /\ order_predictions = <<>>
    /\ temp_preds = <<>>
    /\ model_calls = <<>>
    /\ surya_df = <<>>
    /\ err = ""
    /\ notices = <<>>
    /\ surya_ppi \in Ppis
    /\ ocr_ppi \in Ppis
    /\ buffer_size = 0
    /\ images = <<>>
    /\ image_df = <<>>
    /\ temp_file = FALSE
    /\ stdout = NoOutput
    /\ ocr_res = <<>>
    /\ ocr_df = <<>>
    /\ merged_df = <<>>
    /\ result = <<>>
    /\ entry \in {"get_ocr_df", "run_ocr", "crop_images", "scale_bbox"}
    /\ bbox_arg \in BBoxes
    /\ buffer_arg \in {NaN} \cup
                       (IF entry = "get_ocr_df" THEN {} ELSE {<<b>> : b \in Buffers})
    /\ rect = <<>>
    /\ NoUploadCall
    /\ RestIdle

NextScale ==
    \/ rescale_get_ocr_df
    \/ rescale_run_ocr
    \/ rescale_crop_images
    \/ rescale_scale_bbox

SpecScale == InitScale /\ [][NextScale]_vars

----------------------------------------------------------------------------
(* hbs_grid.py: Grid.upload_folder                                         *)

\* A folder tree is the set of its entries, an entry a path below the root
\* of the tree (the list of names), its kind and, of a file, its content.
FileEntry(path, data) == [path |-> path, kind |-> "file", data |-> data]

DirEntry(path) == [path |-> path, kind |-> "dir", data |-> ""]

\* The names of the files and of the one subfolder a folder can hold.  A
\* name is that of a file on both sides or that of a folder on both sides.
FileNames == {"a", "b"}

DirName == "d"

\* The trees with files of content `data`: some of the files, and no
\* subfolder or the subfolder with some of the files.
Folders(data) ==
    {{FileEntry(<<f>>, data) : f \in F} \cup D :
        F \in SUBSET FileNames,
        D \in {{}} \cup
              {{DirEntry(<<DirName>>)} \cup {FileEntry(<<DirName, f>>, data) : f \in G} :
                  G \in SUBSET FileNames}}

\* The server side: remote_folder does not exist, or exists with a tree.
RemoteFolders(data) ==
    {{}} \cup {{DirEntry(<<>>)} \cup t : t \in Folders(data)}

\* sftp.stat(path) does not raise.
Exists(fs, path) == \E e \in fs : e.path = path

\* listdir(folder): the entries right below folder.
listdir(fs, folder) ==
    {e \in fs : /\ Len(e.path) = Len(folder) + 1
                /\ SubSeq(e.path, 1, Len(folder)) = folder}

\* The names of a listing.
Names(items) == {e.path[Len(e.path)] : e \in items}

\* Grid.is_directory
is_directory(fs, path) == \E e \in fs : e.path = path /\ e.kind = "dir"

\* Grid.delete_file: sftp.remove
delete_file(fs, remote_path) == {e \in fs : e.path # remote_path}

\* Grid.upload_file: sftp.put
upload_file(fs, item) == {e \in fs : e.path # item.path} \cup {item}

RECURSIVE delete_folder(_, _), DeleteItems(_, _)
\* Grid.delete_folder lines 383-388, for the listed items still to delete.
DeleteItems(fs, items) ==
    IF items = {} THEN fs
    ELSE LET item == CHOOSE e \in items : TRUE
         IN  DeleteItems(IF is_directory(fs, item.path)
                         THEN delete_folder(fs, item.path)
                         ELSE delete_file(fs, item.path),
                         items \ {item})

\* Grid.delete_folder: the items, then sftp.rmdir of the folder itself.
delete_folder(fs, remote_path) ==
    {e \in DeleteItems(fs, listdir(fs, remote_path)) : e.path # remote_path}

\* upload_folder lines 430-436: mkdir when stat raises.
StatOrMkdir(remote, folder) ==
    IF Exists(remote, folder) THEN remote ELSE remote \cup {DirEntry(folder)}

\* upload_folder lines 461-470, for the listed remote items still to look
\* at: an item whose name is not in the local listing is deleted.
RECURSIVE DeleteOthers(_, _, _, _)
DeleteOthers(local, remote, folder, items) ==
    IF items = {} THEN remote
    ELSE LET item == CHOOSE e \in items : TRUE
             name == item.path[Len(item.path)]
         IN  DeleteOthers(local,
                          IF name \notin Names(listdir(local, folder))
                          THEN IF is_directory(remote, item.path)
                               THEN delete_folder(remote, item.path)
                               ELSE delete_file(remote, item.path)
                          ELSE remote,
                          folder, items \ {item})

RECURSIVE upload_folder(_, _, _, _, _), UploadItems(_, _, _, _, _)
\* upload_folder lines 439-459, for the local items still to upload.
UploadItems(local, remote, items, repl, del_other) ==
    IF items = {} THEN remote
    ELSE LET item == CHOOSE e \in items : TRUE
         IN  UploadItems(local,
                         IF item.kind = "dir"
                         THEN upload_folder(local, remote, item.path, repl, del_other)
                         ELSE IF Exists(remote, item.path)
                              THEN IF repl
                                   THEN upload_file(delete_file(remote, item.path), item)
                                   ELSE remote
                              ELSE upload_file(remote, item),
                         items \ {item}, repl, del_other)

\* Grid.upload_folder of the folder at path `folder` of both trees: what the
\* remote tree is afterwards.
upload_folder(local, remote, folder, repl, del_other) ==
    LET made == StatOrMkdir(remote, folder)
        sent == UploadItems(local, made, listdir(local, folder), repl, del_other)
    IN  DeleteOthers(local, sent, folder, listdir(sent, folder))

\* upload_folder lines 430-436 of the call the caller made.
upload_folder_stat ==
    /\ pc = "upload_folder"
    /\ remote_folder' = StatOrMkdir(remote_folder, <<>>)
    /\ pc' = "upload_items"
    /\ UNCHANGED suryaVars_but_pc
    /\ UNCHANGED <<ocrVars, scaleVars, restVars>>
    /\ UNCHANGED <<local_folder, remote_before, replace, delete_other>>

\* upload_folder lines 439-459: the first loop, with the calls it makes
\* for the subfolders.
upload_folder_items ==
    /\ pc = "upload_items"
    /\ remote_folder' = UploadItems(local_folder, remote_folder,
                                    listdir(local_folder, <<>>), replace, delete_other)
    /\ pc' = "upload_others"
    /\ UNCHANGED suryaVars_but_pc
    /\ UNCHANGED <<ocrVars, scaleVars, restVars>>
    /\ UNCHANGED <<local_folder, remote_before, replace, delete_other>>

\* upload_folder lines 461-470: the second loop.
upload_folder_others ==
    /\ pc = "upload_others"
    /\ remote_folder' = DeleteOthers(local_folder, remote_folder, <<>>,
                                     listdir(remote_folder, <<>>))
    /\ pc' = "uploaded"
    /\ UNCHANGED suryaVars_but_pc
    /\ UNCHANGED <<ocrVars, scaleVars, restVars>>
    /\ UNCHANGED <<local_folder, remote_before, replace, delete_other>>

\* The call of upload_folder on a local and a remote folder.
InitGrid ==
    /\ layout_preds = <<>>
    /\ pc = "upload_folder"
    /\ order_function = "none"
    /\ page_no = 1
    /\ order_predictions = <<>>
    /\ temp_preds = <<>>
    /\ model_calls = <<>>
    /\ surya_df = <<>>
    /\ err = ""
    /\ notices = <<>>
    /\ surya_ppi = 72
    /\ ocr_ppi = 150
    /\ buffer_size = 0
    /\ images = <<>>
    /\ image_df = <<>>
    /\ temp_file = FALSE
    /\ stdout = NoOutput
    /\ ocr_res = <<>>
    /\ ocr_df = <<>>
    /\ merged_df = <<>>
    /\ result = <<>>
    /\ NoRescaleCall
    /\ local_folder \in Folders("local")
    /\ remote_folder \in RemoteFolders("remote")
    /\ remote_before = remote_folder
    /\ replace \in BOOLEAN
    /\ delete_other \in BOOLEAN
    /\ RestIdle

NextGrid ==
    \/ upload_folder_stat
    \/ upload_folder_items
    \/ upload_folder_others

SpecGrid == InitGrid /\ [][NextGrid]_vars

----------------------------------------------------------------------------
(* hbs_grid.py: the connection of a Grid object and the commands it runs   *)
(* on the scheduler.                                                       *)

MaxSessions == 2

MaxCommands == 3

MaxFileOps == 2

\* The job ids the scheduler gave out before the first call, and the last
\* one it gives out.
InitJobId == 2

MaxJobId == 4

\* One line of the output of a command: what it says and the job id in it.
Line(kind, job) == [kind |-> kind, job |-> job]

EmptyLine == Line("", 0)

\* A command line: the program and the value formatted into it.
Command(name, arg) == [name |-> name, arg |-> arg]

RECURSIVE JobLines(_)
\* The lines of a bjobs listing, one per unfinished job.
JobLines(jobs) ==
    IF jobs = {} THEN <<>>
    ELSE LET j == CHOOSE x \in jobs : \A y \in jobs : x <= y
         IN  <<Line("job", j)>> \o JobLines(jobs \ {j})

\* What bjobs writes: the header and one line per job on stdout, or the
\* sentence on stderr (which exec_command appends after "\n").
bjobs_output(jobs) ==
    IF jobs = {}
    THEN PyStr(<<EmptyLine, Line("No unfinished job found", 0), EmptyLine>>)
    ELSE PyStr(<<Line("header", 0)>> \o JobLines(jobs) \o <<EmptyLine>>)

\* The scheduler: its unfinished jobs, the last id it gave out and the
\* commands it has run.
Server == [jobs |-> lsf_jobs, count |-> job_count, commands |-> commands]

\* What the server may answer to a command: the output and its jobs after.
\* bsub answers "Job <n> is submitted" or refuses.
ServerReplies(cmd, s) ==
    CASE cmd.name = "bjobs" ->
             {[output |-> bjobs_output(s.jobs), jobs |-> s.jobs, count |-> s.count]}
      [] cmd.name = "bkill" ->
             {[output |-> PyStr(<<Line("is being terminated", cmd.arg.value[1]), EmptyLine>>),
               jobs |-> s.jobs \ {cmd.arg.value[1]}, count |-> s.count]}
      [] OTHER ->
             {[output |-> PyStr(<<Line("submitted", s.count + 1), EmptyLine>>),
               jobs |-> s.jobs \cup {s.count + 1}, count |-> s.count + 1],
              [output |-> PyStr(<<EmptyLine, Line("rejected", 0), EmptyLine>>),
               jobs |-> s.jobs, count |-> s.count]}

\* Grid.get_job_id: re.search on the text; on a value that is not a str
\* re.search raises TypeError.
get_job_id(text) ==
    IF text.type # "str" THEN Raise("TypeError")
    ELSE LET hits == {i \in 1..Len(text.value) : text.value[i].kind = "submitted"}
         IN  IF hits # {}
             THEN Return(PyInt(text.value[CHOOSE i \in hits : \A k \in hits : i <= k].job))
             ELSE Return(PyNone)

SshNotEstablished == "SSH connection not established. Call connect() first."

\* Grid.exec_command on server state s: every way the call can end, with
\* the server after it and the output text it collected.
exec_command(s, cmd) ==
    IF ssh = NoSession
    THEN {[ret |-> Raise(SshNotEstablished), server |-> s, output |-> PyNone]}
    ELSE {[ret |-> get_job_id(r.output),
           server |-> [jobs |-> r.jobs, count |-> r.count,
                       commands |-> Append(s.commands, cmd)],
           output |-> r.output] : r \in ServerReplies(cmd, s)}

\* Grid.exec_commands: get_job_id of what exec_command returned.
exec_commands(s, cmd) ==
    {IF o.ret.raised # "" THEN o
     ELSE [o EXCEPT !.ret = get_job_id(o.ret.value)] : o \in exec_command(s, cmd)}

\* Python's `not output`.
Falsy(v) ==
    \/ v.type = "NoneType"
    \/ v.type = "int" /\ v.value = <<0>>
    \/ v.type = "str" /\ v.value = <<>>

\* Grid.get_bjobs lines 191-227 on what exec_command('bjobs') returned.
bjobs_table(output) ==
    IF Falsy(output)
    THEN Raise("No output from bjobs, wait for a while and try again.")
    ELSE IF output.type # "str" THEN Raise("TypeError")
    ELSE IF \E i \in 1..Len(output.value) :
                output.value[i].kind = "No unfinished job found"
    THEN Return(PyDataFrame(<<>>))
    ELSE LET rows == SubSeq(output.value, 2, Len(output.value) - 1)
         IN  Return(PyDataFrame([i \in 1..Len(rows) |-> [JOBID |-> rows[i].job]]))

\* Grid.get_bjobs.
get_bjobs(s) ==
    {IF o.ret.raised # "" THEN o
     ELSE [o EXCEPT !.ret = bjobs_table(o.ret.value)] :
         o \in exec_command(s, Command("bjobs", PyNone))}

RECURSIVE bkill_each(_, _)
\* The loop of kill_all: bkill on every id, in order.
bkill_each(o, ids) ==
    IF ids = <<>> THEN {[o EXCEPT !.ret = Return(PyNone)]}
    ELSE UNION {IF k.ret.raised # "" THEN {k} ELSE bkill_each(k, Tail(ids)) :
                   k \in exec_command(o.server, Command("bkill", PyInt(Head(ids))))}

\* Grid.kill_all; bjobs_df['JOBID'] of a table without columns is a
\* KeyError.
kill_all(s) ==
    UNION {IF o.ret.raised # "" THEN {o}
           ELSE IF o.ret.value.value = <<>> THEN {[o EXCEPT !.ret = Raise("KeyError")]}
           ELSE bkill_each(o, [i \in 1..Len(o.ret.value.value) |->
                                   o.ret.value.value[i].JOBID]) :
               o \in get_bjobs(s)}

\* What a Grid call leaves alone besides the Grid object and the server.
notJobVars == <<suryaVars_but_pc, ocrVars, scaleVars, gridVars, dbVars, sliceVars, zipVars>>

\* Grid.connect: a new SSH connection replaces self.ssh.
Grid_connect ==
    /\ pc = "grid"
    /\ session_count < MaxSessions
    /\ session_count' = session_count + 1
    /\ ssh' = session_count + 1
    /\ grid_call' = Call("connect", PyNone, lsf_jobs, PyNone)
    /\ grid_ret' = Return(PyNone)
    /\ UNCHANGED <<pc, sftp, closed, in_with, commands, lsf_jobs, job_count,
                   sftp_ops, prep_id>>
    /\ UNCHANGED notJobVars

\* Grid.open_sftp.
Grid_open_sftp ==
    /\ pc = "grid"
    /\ IF ssh = NoSession
       THEN /\ grid_ret' = Raise(SshNotEstablished)
            /\ UNCHANGED sftp
       ELSE /\ sftp' = ssh
            /\ grid_ret' = Return(PyNone)
    /\ grid_call' = Call("open_sftp", PyNone, lsf_jobs, PyNone)
    /\ UNCHANGED <<pc, ssh, closed, session_count, in_with, commands, lsf_jobs,
                   job_count, sftp_ops, prep_id>>
    /\ UNCHANGED notJobVars

\* Lines 82-84 of Grid.close: self.sftp is left as it is.
close ==
    IF ssh # NoSession
    THEN /\ closed' = closed \cup {ssh}
         /\ ssh' = NoSession
    ELSE UNCHANGED <<ssh, closed>>

\* Grid.close called by the user.
Grid_close ==
    /\ pc = "grid"
    /\ close
    /\ grid_call' = Call("close", PyNone, lsf_jobs, PyNone)
    /\ grid_ret' = Return(PyNone)
    /\ UNCHANGED <<pc, sftp, session_count, in_with, commands, lsf_jobs, job_count,
                   sftp_ops, prep_id>>
    /\ UNCHANGED notJobVars

\* Grid.__enter__: connect, then open_sftp.
Grid_enter ==
    /\ pc = "grid"
    /\ ~in_with
    /\ session_count < MaxSessions
    /\ session_count' = session_count + 1
    /\ ssh' = session_count + 1
    /\ sftp' = session_count + 1
    /\ in_with' = TRUE
    /\ grid_call' = Call("__enter__", PyNone, lsf_jobs, PyNone)
    /\ grid_ret' = Return(PyNone)
    /\ UNCHANGED <<pc, closed, commands, lsf_jobs, job_count, sftp_ops, prep_id>>
    /\ UNCHANGED notJobVars

\* Grid.__exit__, at the end of the with block or on an exception raised
\* in it (the last call raised).
Grid_exit ==
    /\ pc = "grid"
    /\ in_with
    /\ close
    /\ in_with' = FALSE
    /\ grid_call' = Call("__exit__", PyNone, lsf_jobs, PyNone)
    /\ grid_ret' = Return(PyNone)
    /\ UNCHANGED <<pc, sftp, session_count, commands, lsf_jobs, job_count,
                   sftp_ops, prep_id>>
    /\ UNCHANGED notJobVars

\* The SFTP file operations of Grid.
FileOps == {"download_file", "upload_file", "delete_file"}

\* Grid.download_file, upload_file, delete_file: the operation goes to
\* self.sftp, whatever became of the connection it was opened on; on None
\* the attribute access raises.
Grid_file_op ==
    /\ pc = "grid"
    /\ Len(sftp_ops) < MaxFileOps
    /\ \E op \in FileOps :
           /\ grid_call' = Call(op, PyNone, lsf_jobs, PyNone)
           /\ IF sftp = NoSession
              THEN /\ grid_ret' = Raise("AttributeError")
                   /\ UNCHANGED sftp_ops
              ELSE /\ sftp_ops' = Append(sftp_ops, [op |-> op, session |-> sftp,
                                                    closed |-> sftp \in closed])
                   /\ grid_ret' = IF sftp \in closed THEN Raise("OSError")
                                  ELSE Return(PyNone)
    /\ UNCHANGED <<pc, ssh, sftp, closed, session_count, in_with, commands,
                   lsf_jobs, job_count, prep_id>>
    /\ UNCHANGED notJobVars

\* The outcome o of a call: the server after it, and what it returned.
Outcome(o) ==
    /\ commands' = o.server.commands
    /\ lsf_jobs' = o.server.jobs
    /\ job_count' = o.server.count
    /\ grid_ret' = o.ret

\* Grid.exec_command called by the user, on bjobs or on bkill of a job.
Grid_exec_command ==
    /\ pc = "grid"
    /\ Len(commands) < MaxCommands
    /\ \E cmd \in {Command("bjobs", PyNone)} \cup
                   {Command("bkill", PyInt(j)) : j \in lsf_jobs} :
           \E o \in exec_command(Server, cmd) :
               /\ Outcome(o)
               /\ grid_call' = Call("exec_command", cmd.arg, lsf_jobs, o.output)
    /\ UNCHANGED <<pc, ssh, sftp, closed, session_count, in_with, sftp_ops, prep_id>>
    /\ UNCHANGED notJobVars

\* Grid.get_bjobs called by the user.
Grid_get_bjobs ==
    /\ pc = "grid"
    /\ Len(commands) < MaxCommands
    /\ \E o \in get_bjobs(Server) :
           /\ Outcome(o)
           /\ grid_call' = Call("get_bjobs", PyNone, lsf_jobs, o.output)
    /\ UNCHANGED <<pc, ssh, sftp, closed, session_count, in_with, sftp_ops, prep_id>>
    /\ UNCHANGED notJobVars

\* Grid.kill_all called by the user.
Grid_kill_all ==
    /\ pc = "grid"
    /\ Len(commands) < MaxCommands
    /\ \E o \in kill_all(Server) :
           /\ Outcome(o)
           /\ grid_call' = Call("kill_all", PyNone, lsf_jobs, o.output)
    /\ UNCHANGED <<pc, ssh, sftp, closed, session_count, in_with, sftp_ops, prep_id>>
    /\ UNCHANGED notJobVars

\* run_ocr line 485: run_ocr_prep, that is run_bsub, that is exec_command
\* on the bsub of the preparation script.
run_ocr_prep ==
    /\ pc = "grid"
    /\ Len(commands) + 2 <= MaxCommands
    /\ job_count + 2 <= MaxJobId
    /\ \E o \in exec_command(Server, Command("bsub", PyNone)) :
           /\ Outcome(o)
           /\ grid_call' = Call("run_ocr", PyNone, lsf_jobs, o.output)
           /\ IF o.ret.raised # ""
              THEN UNCHANGED <<pc, prep_id>>
              ELSE /\ prep_id' = o.ret.value
                   /\ pc' = "run_ocr_parallel"
    /\ UNCHANGED <<ssh, sftp, closed, session_count, in_with, sftp_ops>>
    /\ UNCHANGED notJobVars

\* run_ocr lines 486-487: run_ocr_parallel, that is exec_with_conda, that
\* is exec_commands on the bsub of the job array with done(prep_id).
run_ocr_parallel ==
    /\ pc = "run_ocr_parallel"
    /\ \E o \in exec_commands(Server, Command("bsub -w done", prep_id)) :
           /\ Outcome(o)
           /\ grid_call' = Call("run_ocr", prep_id, grid_call.jobs, o.output)
    /\ pc' = "grid"
    /\ UNCHANGED <<ssh, sftp, closed, session_count, in_with, sftp_ops, prep_id>>
    /\ UNCHANGED notJobVars

\* The parser is not running.
ParserIdle ==
    /\ layout_preds = <<>>
    /\ order_function = "none"
    /\ page_no = 1
    /\ order_predictions = <<>>
    /\ temp_preds = <<>>
    /\ model_calls = <<>>
    /\ surya_df = <<>>
    /\ err = ""
    /\ notices = <<>>
    /\ surya_ppi = 72
    /\ ocr_ppi = 150
    /\ buffer_size = 0
    /\ images = <<>>
    /\ image_df = <<>>
    /\ temp_file = FALSE
    /\ stdout = NoOutput
    /\ ocr_res = <<>>
    /\ ocr_df = <<>>
    /\ merged_df = <<>>
    /\ result = <<>>
    /\ NoRescaleCall
    /\ NoUploadCall

\* A Grid object after __init__; nothing is running on the scheduler.
InitSession ==
    /\ ParserIdle
    /\ NoDatabaseCall
    /\ NoJobArray
    /\ NoZipCall
    /\ pc = "grid"
    /\ NoGridCall

NextSession ==
    \/ Grid_connect
    \/ Grid_open_sftp
    \/ Grid_close
    \/ Grid_enter
    \/ Grid_exit
    \/ Grid_file_op
    \/ Grid_exec_command

SpecSession == InitSession /\ [][NextSession]_vars

\* A Grid object, connected or not, and a scheduler with jobs submitted
\* earlier, some of them unfinished.
InitJobs ==
    /\ ParserIdle
    /\ NoDatabaseCall
    /\ NoJobArray
    /\ NoZipCall
    /\ pc = "grid"
    /\ \E connected \in BOOLEAN :
           /\ ssh = (IF connected THEN 1 ELSE NoSession)
           /\ sftp = ssh
           /\ session_count = ssh
    /\ closed = {}
    /\ in_with = FALSE
    /\ commands = <<>>
    /\ lsf_jobs \in SUBSET (1..InitJobId)
    /\ job_count = InitJobId
    /\ sftp_ops = <<>>
    /\ grid_call = Call("none", PyNone, {}, PyNone)
    /\ grid_ret = Return(PyNone)
    /\ prep_id = PyNone

NextJobs ==
    \/ Grid_exec_command
    \/ Grid_get_bjobs
    \/ Grid_kill_all
    \/ run_ocr_prep
    \/ run_ocr_parallel

SpecJobs == InitJobs /\ [][NextJobs]_vars

----------------------------------------------------------------------------
(* report_db.py: ResultDatabase on parsed.db.                              *)

\* The frames stored in parsed.db, so that the model is finite.
MaxStored == 3

RECURSIVE Stored(_)
\* The number of frames stored in the tables of set ts.
Stored(ts) ==
    IF ts = {} THEN 0
    ELSE LET t == CHOOSE x \in ts : TRUE
         IN  Len(db_tables[t].rows) + Stored(ts \ {t})

\* _get_report_names: SELECT DISTINCT report_name FROM table.
get_report_names_of(table) ==
    {db_tables[table].rows[i] : i \in 1..Len(db_tables[table].rows)}

\* df.to_sql(table_name, if_exists='append'): the table is created when it
\* does not exist, and the rows of the frame (of one report) are added.
to_sql(db, table_name, report_name) ==
    [db EXCEPT ![table_name] =
        [exists |-> TRUE, rows |-> Append(db[table_name].rows, report_name)]]

\* What the database and the ResultDatabase leave alone.
notDbVars == <<suryaVars_but_pc, ocrVars, scaleVars, gridVars, jobVars, sliceVars, zipVars>>

\* ResultDatabase.__init__: the tables of the file and their reports are
\* read once.
ResultDatabase_init ==
    /\ pc = "db"
    /\ table_reports_dict' =
           [t \in Tables |-> IF db_tables[t].exists
                             THEN [key |-> TRUE, names |-> get_report_names_of(t)]
                             ELSE NoKey]
    /\ all_report_names' =
           UNION {get_report_names_of(t) : t \in {x \in Tables : db_tables[x].exists}}
    /\ db_call' = "__init__"
    /\ db_ret' = Return(PyNone)
    /\ UNCHANGED <<pc, db_tables>>
    /\ UNCHANGED notDbVars

\* ResultDatabase.insert_df of the frame of one report.
insert_df ==
    /\ pc = "db"
    /\ db_call # "none"
    /\ Stored(Tables) < MaxStored
    /\ \E table_name \in Tables, report_name \in Reports :
           IF report_name \in all_report_names
           THEN /\ db_ret' = Return(PyNone)
                /\ UNCHANGED <<db_tables, table_reports_dict, all_report_names>>
           ELSE /\ db_tables' = to_sql(db_tables, table_name, report_name)
                /\ IF table_reports_dict[table_name].key
                   THEN /\ table_reports_dict' =
                               [table_reports_dict EXCEPT ![table_name].names =
                                    @ \cup {report_name}]
                        /\ all_report_names' = all_report_names \cup {report_name}
                        /\ db_ret' = Return(PyNone)
                   ELSE /\ db_ret' = Raise("KeyError")
                        /\ UNCHANGED <<table_reports_dict, all_report_names>>
    /\ db_call' = "insert_df"
    /\ UNCHANGED pc
    /\ UNCHANGED notDbVars

\* A parsed.db without tables, before the first ResultDatabase on it.
InitDb ==
    /\ ParserIdle
    /\ NoGridCall
    /\ pc = "db"
    /\ NoDatabaseCall
    /\ NoJobArray
    /\ NoZipCall

NextDb ==
    \/ ResultDatabase_init
    \/ insert_df

SpecDb == InitDb /\ [][NextDb]_vars

----------------------------------------------------------------------------
(* master.py: the reports of a job of the job array.                       *)

Min(a, b) == IF a <= b THEN a ELSE b

\* Python's s[start:end] for 0 <= start, 0 <= end: both are clamped to
\* len(s), and the slice is empty when start >= end.
PySlice(s, start, end) == SubSeq(s, Min(start, Len(s)) + 1, Min(end, Len(s)))

\* Variant of get_report_names in which the last job has a batch like the
\* others.
get_report_names_even(names, job_id, n_jobs) ==
    LET batch_size == Len(names) \div n_jobs
        start == (job_id - 1) * batch_size
        end == job_id * batch_size
    IN  PySlice(names, start, end)

\* master.get_report_names on the list read from report_names.json.
get_report_names(names, job_id, n_jobs) ==
    LET batch_size == Len(names) \div n_jobs
        start == (job_id - 1) * batch_size
        end == IF job_id = n_jobs THEN Len(names) ELSE job_id * batch_size
    IN  PySlice(names, start, end)

\* What a job of the array leaves alone.
notSliceVars == <<suryaVars_but_pc, ocrVars, scaleVars, gridVars, jobVars, dbVars, zipVars>>

\* master.main line 29 in the job LSB_JOBINDEX = job_id of the array; the
\* jobs of an array start in any order.
main_get_report_names ==
    /\ pc = "master"
    /\ \E job_id \in 1..job_num :
           /\ job_slices[job_id] = NaN
           /\ job_slices' = [job_slices EXCEPT ![job_id] =
                                 <<get_report_names(report_names_json, job_id, job_num)>>]
    /\ UNCHANGED <<pc, report_names_json, job_num>>
    /\ UNCHANGED notSliceVars

\* A job array of job_num jobs on a list of distinct report names.
InitMaster ==
    /\ ParserIdle
    /\ NoGridCall
    /\ NoDatabaseCall
    /\ NoZipCall
    /\ pc = "master"
    /\ \E len \in 0..MaxReports : report_names_json = [i \in 1..len |-> i]
    /\ job_num \in 1..MaxJobs
    /\ job_slices = [j \in 1..MaxJobs |-> NaN]

NextMaster ==
    \/ main_get_report_names

SpecMaster == InitMaster /\ [][NextMaster]_vars

----------------------------------------------------------------------------
(* convert_pdf_to_txt.py: the text entries of the PDFs of a bank's zip.    *)

\* main runs this many times on the same input zip.
MaxRuns == 2

\* File names are sequences of characters.
pdf == <<".", "p", "d", "f">>

txt == <<".", "t", "x", "t">>

htm == <<".", "h", "t", "m">>

\* The entries a bank's zip may hold (create_bank_level_zipfiles keeps
\* .pdf, .htm and .xlsx files, under lower-case names).
InputNames == {<<"a">> \o pdf, <<"b">> \o pdf, <<"a">> \o htm}

\* str.endswith.
endswith(name, suffix) ==
    /\ Len(name) >= Len(suffix)
    /\ SubSeq(name, Len(name) - Len(suffix) + 1, Len(name)) = suffix

\* analyst_report[:-4] + '.txt'.
txt_file_path(analyst_report) ==
    SubSeq(analyst_report, 1, Len(analyst_report) - 4) \o txt

\* Variant of namelist_set that sees no entry.
namelist_none(zip) == {}

\* set(zip.namelist()).
namelist_set(zip) == {zip[i] : i \in 1..Len(zip)}

\* The zips add_file_to_zip builds: it adds a name only when the zip does
\* not have it, so that the names are distinct, in any order.
Zips(names) ==
    {z \in UNION {[1..n -> names] : n \in 0..Cardinality(names)} :
         \A i, j \in 1..Len(z) : i # j => z[i] # z[j]}

\* What the conversion leaves alone.
notZipVars == <<suryaVars_but_pc, ocrVars, scaleVars, gridVars, jobVars, dbVars,
                sliceVars>>

\* extract_text_from_pdf line 60: the names in the output zip are read
\* once, before the loop.
extract_start ==
    /\ pc = "extract"
    /\ existing_files' = namelist_set(output_zip)
    /\ zip_idx' = 1
    /\ pc' = "extract_loop"
    /\ UNCHANGED <<input_zip, unreadable, output_zip, zip_errors, run_outputs>>
    /\ UNCHANGED notZipVars

\* One iteration on an entry that is no PDF, or whose text entry exists.
extract_skip ==
    /\ pc = "extract_loop"
    /\ zip_idx <= Len(input_zip)
    /\ LET analyst_report == input_zip[zip_idx]
       IN  \/ ~endswith(analyst_report, pdf)
           \/ txt_file_path(analyst_report) \in existing_files
    /\ zip_idx' = zip_idx + 1
    /\ UNCHANGED <<pc, input_zip, unreadable, output_zip, existing_files, zip_errors,
                   run_outputs>>
    /\ UNCHANGED notZipVars

\* One iteration on a PDF whose text is extracted and written.
extract_write ==
    /\ pc = "extract_loop"
    /\ zip_idx <= Len(input_zip)
    /\ LET analyst_report == input_zip[zip_idx]
       IN  /\ endswith(analyst_report, pdf)
           /\ txt_file_path(analyst_report) \notin existing_files
           /\ analyst_report \notin unreadable
           /\ output_zip' = Append(output_zip, txt_file_path(analyst_report))
    /\ zip_idx' = zip_idx + 1
    /\ UNCHANGED <<pc, input_zip, unreadable, existing_files, zip_errors, run_outputs>>
    /\ UNCHANGED notZipVars

\* One iteration on a PDF pdfplumber raises on: the error is printed.
extract_except ==
    /\ pc = "extract_loop"
    /\ zip_idx <= Len(input_zip)
    /\ LET analyst_report == input_zip[zip_idx]
       IN  /\ endswith(analyst_report, pdf)
           /\ txt_file_path(analyst_report) \notin existing_files
           /\ analyst_report \in unreadable
           /\ zip_errors' = Append(zip_errors, analyst_report)
    /\ zip_idx' = zip_idx + 1
    /\ UNCHANGED <<pc, input_zip, unreadable, output_zip, existing_files, run_outputs>>
    /\ UNCHANGED notZipVars

\* The loop is over and the zips are closed; main may be run again on the
\* same input.
extract_return ==
    /\ pc = "extract_loop"
    /\ zip_idx > Len(input_zip)
    /\ run_outputs' = Append(run_outputs, output_zip)
    /\ pc' = IF Len(run_outputs) < MaxRuns THEN "extract" ELSE "extracted"
    /\ UNCHANGED <<input_zip, unreadable, output_zip, existing_files, zip_idx,
                   zip_errors>>
    /\ UNCHANGED notZipVars

\* main on one zip of the input directory: the output zip is new, or holds
\* the text of a.pdf from an earlier run.
InitZip ==
    /\ ParserIdle
    /\ NoGridCall
    /\ NoDatabaseCall
    /\ NoJobArray
    /\ pc = "extract"
    /\ input_zip \in Zips(InputNames)
    /\ unreadable \in SUBSET {n \in InputNames : endswith(n, pdf)}
    /\ \A n \in unreadable : \E i \in 1..Len(input_zip) : input_zip[i] = n
    /\ output_zip \in {<<>>, <<<<"a">> \o txt>>}
    /\ existing_files = {}
    /\ zip_idx = 1
    /\ zip_errors = <<>>
    /\ run_outputs = <<output_zip>>

NextZip ==
    \/ extract_start
    \/ extract_skip
    \/ extract_write
    \/ extract_except
    \/ extract_return

SpecZip == InitZip /\ [][NextZip]_vars

----------------------------------------------------------------------------
(* What the claims speak about.                                            *)

NumPages == Len(layout_preds)

BlockCount(p) == Len(layout_preds[p])

\* The ordering model was called on page p alone.
ScoredAlone(p) == \E c \in 1..Len(model_calls) : model_calls[c] = <<p>>

\* do_order_by_page has returned (or run_surya went on from there).
ByPageDone ==
    /\ order_function = "do_order_by_page"
    /\ pc \in {"parse", "surya_done", "raised"}

\* The order results recorded before iteration p of do_order_by_page.
RecordedBefore(p) == Flatten(SubSeq(temp_preds, 1, p - 1), 1)

\* The order table as order_layout joins it.
OrderTable == add_unique_id(parse_order_res(order_predictions))

RowsOfPage(p) == {r \in 1..Len(surya_df) : surya_df[r].page_idx = p - 1}

\* C1: after order_layout the layout table has exactly one row per detected
\* block, every position is an integer >= -1, and a block whose join key
\* (page_idx, int bbox) has no entry in the order table has position -1.
C1_OneRowPerBlockWithPosition ==
    pc = "surya_done" =>
        LET ids == {OrderTable[k].unique_id : k \in 1..Len(OrderTable)}
        IN  /\ Len(surya_df) = get_box_num(get_bboxes(layout_preds))
            /\ \A p \in 1..NumPages : \A j \in 1..BlockCount(p) :
                   Cardinality({r \in RowsOfPage(p) : surya_df[r].block_idx = j - 1}) = 1
            /\ \A r \in 1..Len(surya_df) :
                   /\ surya_df[r].position \in Int
                   /\ surya_df[r].position >= -1
                   /\ (<<surya_df[r].page_idx>> \o surya_df[r].bbox) \notin ids
                        => surya_df[r].position = -1

\* A layout table built on the page-at-a-time path with joined and unjoined
\* blocks.
C1_Witness ==
    /\ pc = "surya_done"
    /\ order_function = "do_order_by_page"
    /\ LET ids == {OrderTable[k].unique_id : k \in 1..Len(OrderTable)}
       IN  \E r, s \in 1..Len(surya_df) :
               /\ surya_df[r].position = -1
               /\ surya_df[s].position >= 0
               /\ (<<surya_df[r].page_idx>> \o surya_df[r].bbox) \notin ids

\* The order results the orchestrator recorded for page p.
PageResults(p) ==
    IF order_function = "do_order" THEN <<order_predictions[p]>> ELSE temp_preds[p]

\* C2: when the orchestrator returns, the result of every page has as many
\* positions as the page has blocks, in the block order of the input.
C2_OnePositionPerBlock ==
    pc = "parse" =>
        \A p \in 1..NumPages :
            /\ Len(PageResults(p)) = 1
            /\ Len(PageResults(p)[1]) = BlockCount(p)
            /\ \A j \in 1..BlockCount(p) : PageResults(p)[1][j].bbox = layout_preds[p][j].bbox

\* C3: on the page-at-a-time path a page the model did not score, with an
\* earlier result recorded, gets the most recently recorded result, which is
\* the entry of the page before it.
C3_FormerPageResult ==
    order_function = "do_order_by_page" =>
        \A p \in 1..Len(temp_preds) :
            (~ScoredAlone(p) /\ Len(RecordedBefore(p)) > 0) =>
                /\ Len(temp_preds[p]) = 1
                /\ temp_preds[p][1] = RecordedBefore(p)[Len(RecordedBefore(p))]
                /\ temp_preds[p] = temp_preds[p - 1]

\* Pages 1 and 2 scored with different results, page 3 over the limit and
\* given page 2's result.
C3_Witness ==
    /\ ByPageDone
    /\ NumPages = 3
    /\ ScoredAlone(1) /\ ScoredAlone(2) /\ ~ScoredAlone(3)
    /\ temp_preds[1] # temp_preds[2]
    /\ temp_preds[3] = temp_preds[2]
    /\ Len(temp_preds[3][1]) # BlockCount(3)

\* C4: on the page-at-a-time path a page the model did not score, with no
\* result recorded before it, gets a result whose positions are all -1.
C4_SentinelWhenNoFormer ==
    order_function = "do_order_by_page" =>
        \A p \in 1..Len(temp_preds) :
            (~ScoredAlone(p) /\ Len(RecordedBefore(p)) = 0) =>
                /\ Len(temp_preds[p]) = 1
                /\ Len(temp_preds[p][1]) = BlockCount(p)
                /\ \A j \in 1..Len(temp_preds[p][1]) : temp_preds[p][1][j].position = -1

\* C5: do_order is chosen exactly when the largest page has fewer boxes than
\* the limit, and then the model is called once, on all pages; otherwise
\* every call is on one page, pages are visited in ascending order and no
\* page is passed twice.
C5_OneCallOrPageByPage ==
    LET largest == Max({BlockCount(p) : p \in 1..NumPages})
    IN  /\ order_function # "none" =>
               (order_function = "do_order" <=> largest < BoxLimit)
        /\ (order_function = "do_order" /\ pc # "do_order") =>
               model_calls = <<[p \in 1..NumPages |-> p]>>
        /\ (order_function = "do_order" /\ pc = "do_order") => model_calls = <<>>
        /\ order_function = "do_order_by_page" =>
               /\ Len(temp_preds) = page_no - 1
               /\ \A c \in 1..Len(model_calls) :
                      /\ Len(model_calls[c]) = 1
                      /\ model_calls[c][1] \in 1..(page_no - 1)
               /\ \A c, d \in 1..Len(model_calls) :
                      c < d => model_calls[c][1] < model_calls[d][1]

\* The page-at-a-time path has called the model on two pages of a document
\* that has a page it did not score.
C5_Witness ==
    /\ ByPageDone
    /\ Len(model_calls) >= 2
    /\ \E p \in 1..NumPages : ~ScoredAlone(p)

\* C6: on the page-at-a-time path the model is called on a page exactly when
\* the page has fewer boxes than the limit.
C6_ModelOnlyBelowLimit ==
    ByPageDone =>
        \A p \in 1..NumPages : ScoredAlone(p) <=> BlockCount(p) < BoxLimit

\* Ascending by (page_idx, position).
KeyLeq(a, b) ==
    \/ a.page_idx < b.page_idx
    \/ a.page_idx = b.page_idx /\ a.position <= b.position

\* C7: the layout table is sorted by (page_idx, position), and rows with the
\* same page and position are in detector order, so the -1 rows of a page
\* come first, in block order.
C7_SortedStable ==
    pc = "surya_done" =>
        \A r, s \in 1..Len(surya_df) :
            r < s =>
                /\ KeyLeq(surya_df[r], surya_df[s])
                /\ (surya_df[r].page_idx = surya_df[s].page_idx
                        /\ surya_df[r].position = surya_df[s].position)
                    => surya_df[r].block_idx < surya_df[s].block_idx

\* A page whose two unranked rows, in block order, come first and whose two
\* ranked rows follow in ascending position, against detector order.
C7_Witness ==
    /\ pc = "surya_done"
    /\ \E r, s, t, u \in 1..Len(surya_df) :
           /\ r < s /\ s < t /\ t < u
           /\ surya_df[r].page_idx = surya_df[s].page_idx
           /\ surya_df[s].page_idx = surya_df[t].page_idx
           /\ surya_df[t].page_idx = surya_df[u].page_idx
           /\ surya_df[r].position = -1 /\ surya_df[s].position = -1
           /\ surya_df[t].position >= 0
           /\ surya_df[t].position < surya_df[u].position
           /\ surya_df[u].block_idx < surya_df[t].block_idx
           /\ surya_df[t].block_idx < surya_df[r].block_idx

\* run_ocr has returned a text table.
OcrReturned == pc \in {"merge", "done"}

\* The OCR invocation (run_ocr) has ended, by return or by exception.
OcrEnded == OcrReturned \/ (pc = "raised" /\ Len(image_df) > 0)

\* The engine gave output with as many segments as there are images.
SegmentsMatch == ~stdout.none /\ Len(stdout.segments) = Len(images)

\* The images cropped from block (page, block) of the layout table.
ImagesOf(page, block) ==
    {i \in 1..Len(image_df) :
        image_df[i].page_idx = page /\ image_df[i].block_idx = block}

\* C8: when the engine gives as many segments as images, segment i is the
\* text of image i, row i carries the (page_idx, block_idx) of the layout
\* row image i was cropped from, and in the final output the row of a block
\* has the segment of the image cropped from that block (no text when no
\* image was cropped from it).
C8_SegmentToItsBlock ==
    (OcrReturned /\ SegmentsMatch) =>
        /\ Len(ocr_df) = Len(images)
        /\ \A i \in 1..Len(ocr_df) :
               /\ ocr_df[i].text = stdout.segments[i]
               /\ \E r \in 1..Len(surya_df) :
                      /\ surya_df[r].page_idx = ocr_df[i].page_idx
                      /\ surya_df[r].block_idx = ocr_df[i].block_idx
                      /\ images[i] = [page |-> surya_df[r].page_idx,
                                      box |-> surya_df[r].bbox]
               /\ ImagesOf(ocr_df[i].page_idx, ocr_df[i].block_idx) = {i}
        /\ pc = "done" =>
               /\ Len(result) = Len(surya_df)
               /\ \A r \in 1..Len(result) :
                      LET from == ImagesOf(surya_df[r].page_idx, surya_df[r].block_idx)
                      IN  /\ result[r].page_index = surya_df[r].page_idx
                          /\ result[r].bbox = surya_df[r].bbox
                          /\ result[r].text =
                                 IF from = {} THEN NaN
                                 ELSE <<stdout.segments[CHOOSE i \in from : TRUE]>>

\* parse_pdf returned for a batch of three or more images, two of them of
\* one page and cropped in an order other than block order, with one
\* segment each; a page was not cropped.
C8_Witness ==
    /\ pc = "done"
    /\ SegmentsMatch
    /\ Len(images) >= 3
    /\ \E i, j \in 1..Len(image_df) :
           /\ i < j
           /\ image_df[i].page_idx = image_df[j].page_idx
           /\ image_df[i].block_idx > image_df[j].block_idx
    /\ \E r \in 1..Len(result) : result[r].text = NaN
    /\ \E r \in 1..Len(result) : result[r].text # NaN /\ result[r].text # <<EmptyText>>

\* C9: when the engine gives fewer segments than images, or no output,
\* run_ocr raises and returns no text table.
C9_FewerSegmentsRaises ==
    (pc \in {"run_ocr_text", "raised", "merge", "done"}
        /\ (stdout.none \/ Len(stdout.segments) < Len(images)))
    => ~OcrReturned

\* C10: when the OCR invocation has ended, the temporary file does not
\* exist.
C10_TempFileRemoved ==
    OcrEnded => ~temp_file

\* The layout table as run_surya returned it, before get_surya_df and the
\* OCR stage wrote to it.
LayoutTable ==
    order_layout(parse_layout_res(layout_preds), parse_order_res(order_predictions))

\* The rows of the text table run_ocr returned for block (page, block).
OcrRowsOf(page, block) ==
    {i \in 1..Len(ocr_df) : ocr_df[i].page_idx = page /\ ocr_df[i].block_idx = block}

\* C11: the final output has the rows of the layout table, one for one and in
\* place, each with the page index, block index, position and label of its
\* layout row (the block index in the merged table, the final columns have
\* none); no two rows are of the same block; a row with no OCR row has no
\* text.
C11_MergeKeepsEveryRow ==
    pc = "done" =>
        LET lt == LayoutTable
        IN  /\ Len(result) = Len(lt)
            /\ Len(merged_df) = Len(lt)
            /\ \A r \in 1..Len(lt) :
                   /\ result[r].page_index = lt[r].page_idx
                   /\ merged_df[r].page_idx = lt[r].page_idx
                   /\ merged_df[r].block_idx = lt[r].block_idx
                   /\ result[r].position = lt[r].position
                   /\ result[r].label = lt[r].label
                   /\ OcrRowsOf(lt[r].page_idx, lt[r].block_idx) = {}
                        => result[r].text = NaN
                   /\ OcrRowsOf(lt[r].page_idx, lt[r].block_idx) # {}
                        => result[r].text # NaN
            /\ \A r, q \in 1..Len(lt) :
                   r # q => MergeId(merged_df[r]) # MergeId(merged_df[q])

\* parse_pdf returned for a document with a page that was not cropped, whose
\* rows have no text, and a page whose rows have one.
C11_Witness ==
    /\ pc = "done"
    /\ \E p \in 1..NumPages :
           /\ SkipPage(BlockCount(p))
           /\ \A r \in 1..Len(result) :
                  result[r].page_index = p - 1 => result[r].text = NaN
    /\ \E r \in 1..Len(result) : result[r].text # NaN

\* crop_images has run on the layout table.
Cropped ==
    pc \in {"tesseract_ocr_multi", "subprocess_run", "except", "output_text",
            "run_ocr_text", "merge", "done"}

\* C12: once the OCR stage has rescaled and cropped, the bbox of every row
\* of the layout table is the bbox run_surya gave it, and so is the bbox of
\* every row of the final output.
C12_BBoxUnchangedByOcr ==
    /\ Cropped =>
           /\ Len(surya_df) = Len(LayoutTable)
           /\ \A r \in 1..Len(surya_df) : surya_df[r].bbox = LayoutTable[r].bbox
    /\ pc = "done" =>
           \A r \in 1..Len(result) : result[r].bbox = LayoutTable[r].bbox

\* The exceptions the pipeline raises for want of an order result or of a
\* cropped image.
RaisedOnBlockCount == pc = "raised" /\ err = "KeyError"

\* C13: a document with a page of BoxLimit or more blocks does not make the
\* pipeline raise, and the table parse_pdf returns for it has one row per
\* detected block.
C13_OverLimitNeverRaises ==
    (\E p \in 1..NumPages : BlockCount(p) >= BoxLimit) =>
        /\ ~RaisedOnBlockCount
        /\ pc = "done" => Len(result) = get_box_num(get_bboxes(layout_preds))

\* crop_images has returned (run_ocr may have raised on its result).
CropRan == Cropped \/ (pc = "raised" /\ Len(surya_df) > 0)

\* The cropped images of page p (1-based).
ImagesOfPage(p) == {i \in 1..Len(image_df) : image_df[i].page_idx = p - 1}

Scored(p) == order_function = "do_order" \/ ScoredAlone(p)

\* C15: a page is not cropped exactly when the ordering model did not score
\* it.
C15_CropperAgreesWithOrchestrator ==
    CropRan =>
        \A p \in 1..NumPages : (ImagesOfPage(p) = {}) <=> ~Scored(p)

ContainsNaive(r, bbox, scale) ==
    /\ r[1] * scale[2] <= bbox[1] * scale[1]
    /\ r[2] * scale[2] <= bbox[2] * scale[1]
    /\ r[3] * scale[2] >= bbox[3] * scale[1]
    /\ r[4] * scale[2] >= bbox[4] * scale[1]

\* Box `r` reaches farther than the naively scaled box on every side.
StrictlyContainsNaive(r, bbox, scale) ==
    /\ r[1] * scale[2] < bbox[1] * scale[1]
    /\ r[2] * scale[2] < bbox[2] * scale[1]
    /\ r[3] * scale[2] > bbox[3] * scale[1]
    /\ r[4] * scale[2] > bbox[4] * scale[1]

\* C17 as stated: at a higher OCR resolution the rescaled box strictly
\* contains the naively scaled box, for every bbox and buffer; and for every
\* scale and buffer >= 0 it is not smaller on any side.
C17_RescaleStrictlyContains ==
    pc = "rescaled" =>
        /\ ocr_ppi > surya_ppi =>
               StrictlyContainsNaive(rect, bbox_arg, <<ocr_ppi, surya_ppi>>)
        /\ buffer_size >= 0 =>
               ContainsNaive(rect, bbox_arg, <<ocr_ppi, surya_ppi>>)

\* C17 amended: the rescaled box strictly contains the naively scaled box
\* when the buffer is positive (as it is when get_ocr_df picks it for two
\* different resolutions), and for every scale and buffer >= 0 it is not
\* smaller on any side.
C17_RescaleContains ==
    pc = "rescaled" =>
        /\ buffer_size > 0 =>
               StrictlyContainsNaive(rect, bbox_arg, <<ocr_ppi, surya_ppi>>)
        /\ (entry = "get_ocr_df" /\ ocr_ppi > surya_ppi) => buffer_size > 0
        /\ buffer_size >= 0 =>
               ContainsNaive(rect, bbox_arg, <<ocr_ppi, surya_ppi>>)

\* get_ocr_df rescaled to a higher resolution a bbox whose max corner, with
\* the buffer, scales to an integer in exact arithmetic and one more in
\* doubles.
C17_Witness ==
    /\ pc = "rescaled"
    /\ entry = "get_ocr_df"
    /\ ocr_ppi > surya_ppi
    /\ buffer_size = 2
    /\ bbox_arg = <<0, 12, 58, 24>>
    /\ rect = <<-5, 20, 126, 55>>

\* C18: when the caller gives no buffer, the buffer used is 0 if the two
\* resolutions are equal and 2 otherwise, whichever function was called.
C18_DefaultBuffer ==
    (pc = "rescaled" /\ buffer_arg = NaN) =>
        buffer_size = (IF surya_ppi = ocr_ppi THEN 0 ELSE 2)

\* C19: the rows of the final output have the columns page_index, position,
\* bbox, label, text and layout_ppi and no other, layout_ppi is the
\* resolution of the detection, and the rows are the layout table's rows in
\* the layout table's order: pages ascending, positions ascending within a
\* page.
C19_OutputColumnsAndOrder ==
    pc = "done" =>
        LET lt == LayoutTable
        IN  /\ Len(result) = Len(lt)
            /\ \A r \in 1..Len(result) :
                   /\ DOMAIN result[r] =
                          {"page_index", "position", "bbox", "label", "text", "layout_ppi"}
                   /\ result[r].layout_ppi = surya_ppi
                   /\ MergeId(merged_df[r]) = MergeId(lt[r])
                   /\ result[r].page_index = lt[r].page_idx
                   /\ result[r].position = lt[r].position
            /\ \A r, q \in 1..Len(result) :
                   r < q =>
                       \/ result[r].page_index < result[q].page_index
                       \/ /\ result[r].page_index = result[q].page_index
                          /\ result[r].position <= result[q].position

\* parse_pdf returned a table with a page's rows in another order than the
\* detector's, a row without position before a row with one.
C19_Witness ==
    /\ pc = "done"
    /\ \E r, q \in 1..Len(result) :
           /\ r < q
           /\ result[r].page_index = result[q].page_index
           /\ merged_df[r].block_idx > merged_df[q].block_idx
    /\ \E r, q \in 1..Len(result) :
           /\ r < q
           /\ result[r].page_index = result[q].page_index
           /\ result[r].position = -1
           /\ result[q].position >= 0

\* Entry e of the remote folder at the call has no counterpart in the local
\* folder.
AbsentLocally(e) == ~Exists(local_folder, e.path)

\* C20: after upload_folder with delete_other = FALSE every remote entry
\* that has no local counterpart is still there, and after upload_folder
\* with replace = FALSE every remote file that has a local counterpart is
\* still there with its content.
C20_UploadKeepsOthers ==
    pc = "uploaded" =>
        /\ ~delete_other =>
               \A e \in remote_before : AbsentLocally(e) => e \in remote_folder
        /\ ~replace =>
               \A e \in remote_before :
                   (e.kind = "file" /\ ~AbsentLocally(e)) => e \in remote_folder

----------------------------------------------------------------------------
\* C22: for every page the ordering model scored, the position of each block
\* in the layout table is the position the model returned for that block
\* (same page, same block index), whatever the detector output, including
\* blocks of a page whose integer-truncated bboxes coincide.
C22_PositionOfSameBlock ==
    pc = "surya_done" =>
        \A p \in 1..NumPages :
            Scored(p) =>
                \A j \in 1..BlockCount(p) : \A r \in RowsOfPage(p) :
                    surya_df[r].block_idx = j - 1
                        => surya_df[r].position = PageResults(p)[1][j].position

\* C23: after do_order_by_page the list of order results has one entry per
\* input page and entry i is the result of page i.
C23_OneEntryPerPage ==
    (ByPageDone /\ pc = "parse") =>
        /\ Len(order_predictions) = NumPages
        /\ \A p \in 1..NumPages :
               /\ Len(temp_preds[p]) = 1
               /\ order_predictions[p] = temp_preds[p][1]

\* The pages do_order_by_page handled by the fallback so far.
FallbackPages ==
    {p \in 1..(page_no - 1) : TooManyBoxes(<<get_bboxes(layout_preds)[p]>>)}

\* C24: on the page-at-a-time path one notice naming the page is emitted for
\* every page the fallback handled, none for a page the model scored, and
\* none on the whole-batch path.
C24_NoticeNamesThePage ==
    /\ order_function = "do_order" => notices = <<>>
    /\ order_function = "do_order_by_page" =>
           /\ \A p \in FallbackPages :
                  Cardinality({n \in 1..Len(notices) : notices[n].page = <<p - 1>>}) = 1
           /\ \A n \in 1..Len(notices) :
                  \E p \in FallbackPages : notices[n].page = <<p - 1>>

----------------------------------------------------------------------------
\* The side of the page in points: a page of one inch square.
PagePoints == 72

\* pdf2images: the extent of the page image at a resolution; scale is
\* ppi / 72 and the pixmap has the page's points times scale pixels a side.
image_bbox(ppi) ==
    <<0, 0, (PagePoints * ppi) \div 72, (PagePoints * ppi) \div 72>>

\* Rectangle r lies inside the extent page.
Inside(r, page) ==
    /\ page[1] <= r[1]
    /\ page[2] <= r[2]
    /\ r[3] <= page[3]
    /\ r[4] <= page[4]

\* C25: for a layout bbox with 0 <= x <= w and 0 <= y <= h inside the page
\* at layout resolution, and buffer 0 or 2, the rectangle passed to the crop
\* has 0 <= x' <= w' and 0 <= y' <= h' and lies inside the page at OCR
\* resolution.
C25_CropInsidePage ==
    ( /\ pc = "rescaled"
      /\ buffer_size \in {0, 2}
      /\ bbox_arg[1] <= bbox_arg[3]
      /\ bbox_arg[2] <= bbox_arg[4]
      /\ Inside(bbox_arg, image_bbox(surya_ppi)) ) =>
        /\ 0 <= rect[1]
        /\ rect[1] <= rect[3]
        /\ 0 <= rect[2]
        /\ rect[2] <= rect[4]
        /\ Inside(rect, image_bbox(ocr_ppi))

----------------------------------------------------------------------------
\* The bkill commands executed for job j.
BkillsOf(j) ==
    {i \in 1..Len(commands) : commands[i] = Command("bkill", PyInt(j))}

\* C21: on a connected Grid, exec_command returns the output text of the
\* command; get_bjobs returns one table row per listed job for a non-empty
\* listing and an empty table when the output says 'No unfinished job
\* found'; kill_all issues one bkill per listed job id.
C21_BjobsTable ==
    ssh # NoSession =>
        /\ grid_call.name = "exec_command" =>
               /\ grid_ret.raised = ""
               /\ grid_ret.value.type = "str"
               /\ grid_ret.value = grid_call.output
        /\ grid_call.name = "get_bjobs" =>
               /\ grid_ret.raised = ""
               /\ grid_ret.value.type = "DataFrame"
               /\ Len(grid_ret.value.value) = Cardinality(grid_call.jobs)
               /\ {grid_ret.value.value[i].JOBID : i \in 1..Len(grid_ret.value.value)}
                      = grid_call.jobs
        /\ grid_call.name = "kill_all" =>
               \A j \in grid_call.jobs : Cardinality(BkillsOf(j)) = 1

\* The job id in the output of the server, none when nothing was submitted.
SubmittedIn(output) ==
    IF output.type # "str" THEN {}
    ELSE {output.value[i].job : i \in {k \in 1..Len(output.value) :
                                           output.value[k].kind = "submitted"}}

\* C28: run_ocr submits the preparation job and then the OCR job array with
\* done(<id>), <id> being the integer id of the preparation job just
\* submitted, never a missing or non-numeric one, and returns the integer
\* job id of the OCR array.
C28_OcrAfterPrep ==
    /\ \A i \in 1..Len(commands) :
           commands[i].name = "bsub -w done" =>
               /\ i > 1
               /\ commands[i - 1].name = "bsub"
               /\ commands[i].arg.type = "int"
    /\ (grid_call.name = "run_ocr" /\ pc = "grid" /\ ssh # NoSession) =>
           \A id \in SubmittedIn(grid_call.output) :
               /\ grid_ret.raised = ""
               /\ grid_ret.value.type = "int"
               /\ grid_ret.value = PyInt(id)

\* C29: exec_command and open_sftp raise 'SSH connection not established'
\* whenever there is no connection (before connect or after close);
\* __exit__ leaves the connection closed and self.ssh None; no SFTP file
\* operation is issued on a session whose SSH connection has been closed.
C29_SessionLifecycle ==
    /\ (grid_call.name \in {"exec_command", "open_sftp"} /\ ssh = NoSession)
           => grid_ret.raised = SshNotEstablished
    /\ grid_call.name = "__exit__" =>
           /\ ssh = NoSession
           /\ ~in_with
    /\ \A i \in 1..Len(sftp_ops) : ~sftp_ops[i].closed

----------------------------------------------------------------------------
\* The frames of report r stored in parsed.db: (table, row) pairs.
StoredFrames(r) ==
    {<<t, i>> \in Tables \X (1..MaxStored) :
         i <= Len(db_tables[t].rows) /\ db_tables[t].rows[i] = r}

\* C26: every insert_df call returns normally, every report name is stored
\* at most once in the database, and all_report_names is the set of the
\* report names stored across all tables.
C26_StoredOnce ==
    db_call = "insert_df" =>
        /\ db_ret.raised = ""
        /\ \A r \in Reports : Cardinality(StoredFrames(r)) <= 1
        /\ all_report_names = UNION {get_report_names_of(t) : t \in Tables}

----------------------------------------------------------------------------
\* Every job of the array has its reports.
AllJobsRan == \A j \in 1..job_num : job_slices[j] # NaN

RECURSIVE SlicesUpTo(_)
\* The slices of jobs 1..j, concatenated in job order.
SlicesUpTo(j) == IF j = 0 THEN <<>> ELSE SlicesUpTo(j - 1) \o job_slices[j][1]

\* The reports in the slice of job j.
ReportsOf(j) == {job_slices[j][1][i] : i \in 1..Len(job_slices[j][1])}

\* C27: for every list length and every n_jobs >= 1 the slices of the jobs
\* 1..n_jobs are pairwise disjoint and contiguous, and concatenated in job
\* order they are the whole list: every report is in the slice of exactly
\* one job.
C27_SlicesPartition ==
    AllJobsRan =>
        /\ SlicesUpTo(job_num) = report_names_json
        /\ \A j, k \in 1..job_num : j # k => ReportsOf(j) \cap ReportsOf(k) = {}
        /\ \A i \in 1..Len(report_names_json) :
               Cardinality({j \in 1..job_num : report_names_json[i] \in ReportsOf(j)}) = 1
        /\ \A j \in 1..job_num : \A i \in 1..(Len(job_slices[j][1]) - 1) :
               job_slices[j][1][i + 1] = job_slices[j][1][i] + 1

\* Three jobs on five reports: the last job takes the remainder.
C27_Witness ==
    /\ AllJobsRan
    /\ job_num = 3
    /\ Len(report_names_json) = 5
    /\ Len(job_slices[3][1]) = 3

----------------------------------------------------------------------------
\* The PDFs of the input zip.
InputPdfs == {n \in namelist_set(input_zip) : endswith(n, pdf)}

\* A run of extract_text_from_pdf has come to its end.
RunsDone == Len(run_outputs) - 1

\* C30: extract_text_from_pdf keeps the entries the output zip has and
\* writes <name>.txt only for a PDF whose text entry is not in the output
\* zip yet, so that the entry names of the output zip stay unique; a second
\* run on the same input adds nothing; and a PDF that fails does not keep
\* the PDFs after it from being converted.
C30_TextEntriesOnce ==
    /\ \A i, j \in 1..Len(output_zip) : i # j => output_zip[i] # output_zip[j]
    /\ SubSeq(output_zip, 1, Len(run_outputs[1])) = run_outputs[1]
    /\ \A i \in (Len(run_outputs[1]) + 1)..Len(output_zip) :
           \E n \in InputPdfs :
               /\ output_zip[i] = txt_file_path(n)
               /\ output_zip[i] \notin namelist_set(run_outputs[1])
    /\ RunsDone >= 1 =>
           \A n \in InputPdfs \ unreadable :
               txt_file_path(n) \in namelist_set(run_outputs[2])
    /\ RunsDone >= 2 => run_outputs[3] = run_outputs[2]

\* Two runs on a zip in which an unreadable PDF comes before a readable
\* one, whose text the first run wrote; the unreadable one failed in both.
C30_Witness ==
    /\ pc = "extracted"
    /\ RunsDone = 2
    /\ Len(run_outputs[2]) > Len(run_outputs[1])
    /\ \E i, j \in 1..Len(input_zip) :
           /\ i < j
           /\ input_zip[i] \in unreadable
           /\ input_zip[j] \in InputPdfs \ unreadable
    /\ Len(zip_errors) = 2

====
